---- MODULE Spec2Model ----
(***************************************************************************)
(* FlipForce tracker (src/backend/tracker/tracker.py): the polling loop    *)
(* run_tracker and the per-series cycle it runs, as a state machine over   *)
(* the persisted tables.  One action is one database transaction (or one   *)
(* HTTP fetch) of the code; a statement that raises leaves the psycopg2    *)
(* connection in the aborted-transaction state until a rollback.           *)
(***************************************************************************)
EXTENDS Integers, Sequences, FiniteSets, Bags, TLC

\* ------------------------------------------------------------------ bounds
NumSeries == 2
\* How many of the series the category listing resolves in Spec.
NumListed == 1
MaxCards == 2
MaxSweeps == 3
MaxFaults == 1
MaxFeed == 1
MaxPacksSold == 1
\* The verifier on its own: feed length and time range of its inputs.
MaxVerifyFeed == 3
MaxVerifyTime == 3
NumWriters == 2
\* The valuation on its own: tiers per payload, cards per tier, slots per
\* pack, calls in a row.
MaxTiers == 2
MaxTierCards == 2
MaxSlots == 2
MaxCalls == 2
\* largest number, length and key count of a response body
MaxBody == 2

\* ------------------------------------------------------- program constants
\* Python None / SQL NULL in a timestamp or id column.
None == 0
\* pack_max_sold: no row for the series / a row whose max_sold is NULL.
NoRow == -2
SqlNull == -1
\* A createdAt string that parser.isoparse rejects.
Unparseable == -1
TIERS_TO_VERIFY_ON_HIT_FEED == {"Grail", "Chase"}

\* ------------------------------------------------------------ input domains
Series == 1..NumSeries
Listed == 1..NumListed
Cards == 1..MaxCards
\* Two instants per sweep: the sweep's start and the processing that follows.
MaxTime == 2 * MaxSweeps
Times == 1..MaxTime
\* Tier names a payload may give a card: every card may be of the plain
\* tier, odd cards of "Grail", even cards of "Chase".
TiersOf(c) == IF c % 2 = 1 THEN {"Common", "Grail"} ELSE {"Common", "Chase"}
Absent == "absent"
CardSets == {m \in [Cards -> {"Common", "Grail", "Chase", Absent}] :
                \A c \in Cards : m[c] \in TiersOf(c) \cup {Absent}}
NoCards == [c \in Cards |-> Absent]
CardIds(m) == {c \in Cards : m[c] # Absent}

\* packsSold of a detail payload: an int, a non-int number (the database
\* column stores its integer coercion v), or null.
PacksSoldVals ==
    {[kind |-> "null", v |-> 0]}
    \cup {[kind |-> k, v |-> n] : k \in {"int", "float"}, n \in 0..MaxPacksSold}

NoCount == [kind |-> "null", v |-> 0]

\* The orders in which a payload may list the cards of m.
Orders(m) ==
    {o \in UNION {[1..n -> Cards] : n \in 0..MaxCards} :
        /\ Len(o) = Cardinality(CardIds(m))
        /\ {o[i] : i \in 1..Len(o)} = CardIds(m)}

\* The detail payload of series s as run_tracker flattens it: card id -> tier,
\* and the order in which the list gives the cards.  Its packsSold is read
\* by store_metadata_and_sales_snapshot alone and is drawn there.
Payloads(s) ==
    UNION {{[id |-> s, cards |-> m, order |-> o] : o \in Orders(m)} :
               m \in CardSets}
NoPayload == [id |-> None, cards |-> NoCards, order |-> <<>>]

\* Hit-feed items.  An item's id identifies the (card, createdAt) pull.
HitIdOf(c, t) ==
    IF t = Unparseable THEN (MaxCards + 1) * (MaxTime + 1) + c
    ELSE c * (MaxTime + 1) + t + 1
HitItems(now) == {[id |-> HitIdOf(c, t), cardId |-> c, createdAt |-> t] :
                    c \in Cards, t \in {None} \cup 1..now}
NoHit == [id |-> None, cardId |-> None, createdAt |-> None]
RECURSIVE FeedsOfLen(_, _)
FeedsOfLen(now, n) ==
    IF n = 0 THEN {<<>>}
    ELSE {Append(f, h) : f \in FeedsOfLen(now, n - 1), h \in HitItems(now)}
Distinct(f) == \A i, j \in 1..Len(f) : i # j => f[i] # f[j]
\* fetch_hit_feed_data_api: the items, or [] on a failed fetch / no items.
\* (A body on which the function raises ends run_tracker at that point; as
\* far as the tables go that is the behaviour of Crash after the SELECT of
\* the previous snapshot.)
FeedChoices(now) ==
    {f \in UNION {FeedsOfLen(now, n) : n \in 0..MaxFeed} : Distinct(f)}

VARIABLES
    \* persisted tables
    meta,        \* pack_series_metadata.last_seen per series (None: no row)
    packSnaps,   \* number of pack_snapshots rows per series
    maxSold,     \* pack_max_sold.max_sold per series
    totalSold,   \* pack_sales_tracker.total_sold per series (0: no row)
    cardSnap,    \* pack_card_snapshots rows per series: card id -> tier
    snapTime,    \* snapshot_time of those rows
    sold,        \* sold_card_events rows (a bag)
    swaps,       \* suspected_swapped_cards rows (a bag)
    tvRows,      \* number of pack_total_value_snapshots rows per series
    evRows,      \* number of pack_ev_roi_snapshots rows per series
    watermark,   \* series_processing_state.last_snapshot_cards_processed_at
    \* the connection and the process
    txAborted,   \* the connection's transaction is in the failed state
    clock,       \* wall clock
    pc,          \* where run_tracker is
    sweepStart,  \* current_processing_cycle_start_time_utc
    queue,       \* discovered_series_to_process_details still to process
    payload,     \* detailed_pack_data_from_api
    wmRead,      \* series_last_snapshot_processed_at_utc
    soldCountApi,\* sold_count_api of the store_metadata call just made
    prevMap,     \* prev_card_data_map
    todo,        \* potential_sold_card_ids not yet iterated
    hitFeed,     \* hit_feed_api_items
    confirmed,   \* confirmed_sold_cards_for_db_insert
    newly,       \* newly_confirmed_sold_count
    \* history variables
    faults,      \* persistence failures and crashes injected so far
    cyc,         \* the series' rows when its cycle began, and which steps
                 \* of the cycle raised / committed
    hist,        \* what earlier cycles did: the last diff run, the last
                 \* crash between event insert and snapshot replace, the
                 \* last skipped fetch, the targets the last listing resolved
    \* the snapshot-replace transaction and the dashboard
    txRows,      \* the series' pack_card_snapshots rows as the tracker's
                 \* open transaction sees them
    seen,        \* what the dashboard's last query returned, and when
    \* concurrent runs of store_metadata_and_sales_snapshot
    wr,          \* per writer: its statement, its sold_count_api, what its
                 \* SELECT returned, its uncommitted max_sold write
    \* calculate_and_store_ev_roi on its own
    val,         \* the call: its arguments, its locals, its statement
    evStore,     \* committed pack_ev_roi_snapshots and
                 \* pack_tier_ev_contribution_snapshots rows of the series
    evTx,        \* the rows the open transaction has inserted
    \* the marketplace client on its own
    client       \* the call being made, the server's answer, the outcome

tables == <<meta, packSnaps, maxSold, totalSold, cardSnap, snapTime, sold,
            swaps, tvRows, evRows, watermark>>
locals == <<payload, wmRead, soldCountApi, prevMap, todo, hitFeed, confirmed, newly>>
reader == <<txRows, seen>>
\* what run_tracker's own steps never touch
valuation == <<val, evStore, evTx>>
aside == <<reader, wr, valuation, client>>
vars == <<tables, txAborted, clock, pc, sweepStart, queue, locals, faults, cyc,
          hist, aside>>

cur == payload.id

NoCyc == [snap |-> NoCards, sold |-> EmptyBag, swaps |-> EmptyBag, total |-> 0,
          wm |-> None, maxSold |-> NoRow, faults |-> 0, raised |-> {},
          committed |-> {}]
CycleBegins(s) ==
    cyc' = [snap |-> cardSnap[s], sold |-> sold, swaps |-> swaps,
            total |-> totalSold[s], wm |-> watermark[s],
            maxSold |-> maxSold[s], faults |-> faults,
            raised |-> {}, committed |-> {}]
NoDiff == [series |-> None, snap |-> NoCards, cards |-> NoCards,
           sold |-> EmptyBag, runs |-> 0]
NoCrash == [series |-> None, cards |-> {}, sold |-> EmptyBag, total |-> 0]
NoSkip == [series |-> None, at |-> None, snap |-> NoCards, wm |-> None]
\* What the history keeps of a skipped fetch: the series, the sweep (by its
\* clock) and the snapshot and watermark stored for the series at that time.
Skip(s) == [series |-> s, at |-> clock, snap |-> cardSnap[s],
            wm |-> watermark[s]]
NoHist == [lastDiff |-> NoDiff, crashed |-> NoCrash, skipped |-> NoSkip,
           resolved |-> {}]
Raised(step) == cyc' = [cyc EXCEPT !.raised = @ \cup {step}]
Committed(step) == cyc' = [cyc EXCEPT !.committed = @ \cup {step}]

Writers == 1..NumWriters
NoWrite == -3
NoWriter == [pc |-> "idle", count |-> NoCount, result |-> NoRow,
             pending |-> NoWrite, waited |-> FALSE]
NoWriters == [w \in Writers |-> NoWriter]
NoPack == [tiers |-> <<>>, numPremium |-> 0, numNonPremium |-> 0,
           category |-> [base |-> "", dots |-> 0]]
NoCall == [pc |-> "idle", pack |-> NoPack, calls |-> 0, ev |-> None,
           cost |-> None, roi |-> [kind |-> "null", n |-> 0, d |-> 1],
           contributions |-> <<>>, raisedAt |-> "none"]
NoRows == [ev |-> <<>>, tiers |-> <<>>]
NoTx == [open |-> FALSE, rows |-> NoCards]
\* pd.DataFrame(): a frame without rows.
EmptyFrame == [s \in Series |-> NoCards]
NotRead == [at |-> "never", tx |-> NoTx, outcome |-> "none", rows |-> EmptyFrame]
\* A JSON value as far as the client looks at it: its type, its size (the
\* number, the truth value, the length of the string or array, the number of
\* keys), whether it holds "items" (as key, element or substring), and for an
\* object with that key the type of the value under it and that value's
\* size (null, or the same measure as for a body).
Json(shape, size, has, items, count) ==
    [shape |-> shape, size |-> size, has |-> has, items |-> items,
     count |-> count]
NullJson == Json("null", 0, FALSE, "absent", 0)
NoResponse == [kind |-> "none", body |-> NullJson]
NoResult == [outcome |-> "none", value |-> NullJson, error |-> "none"]
NoRequest == [pc |-> "idle", fn |-> "none", response |-> NoResponse,
              result |-> NoResult]

Init ==
    /\ txRows = NoTx
    /\ seen = NotRead
    /\ wr = NoWriters
    /\ val = NoCall
    /\ evStore = NoRows
    /\ evTx = NoRows
    /\ client = NoRequest
    /\ meta = [s \in Series |-> None]
    /\ packSnaps = [s \in Series |-> 0]
    /\ maxSold = [s \in Series |-> NoRow]
    /\ totalSold = [s \in Series |-> 0]
    /\ cardSnap = [s \in Series |-> NoCards]
    /\ snapTime = [s \in Series |-> None]
    /\ sold = EmptyBag
    /\ swaps = EmptyBag
    /\ tvRows = [s \in Series |-> 0]
    /\ evRows = [s \in Series |-> 0]
    /\ watermark = [s \in Series |-> None]
    /\ txAborted = FALSE
    /\ clock = 0
    /\ pc = "sweep"
    /\ sweepStart = None
    /\ queue = <<>>
    /\ payload = NoPayload
    /\ wmRead = None
    /\ soldCountApi = NoCount
    /\ prevMap = NoCards
    /\ todo = {}
    /\ hitFeed = <<>>
    /\ confirmed = {}
    /\ newly = 0
    /\ faults = 0
    /\ cyc = NoCyc
    /\ hist = NoHist

ResetLocals ==
    /\ payload' = NoPayload
    /\ wmRead' = None
    /\ soldCountApi' = NoCount
    /\ prevMap' = NoCards
    /\ todo' = {}
    /\ hitFeed' = <<>>
    /\ confirmed' = {}
    /\ newly' = 0
    /\ cyc' = NoCyc

\* A statement raises: the transaction was already aborted, or a fault is
\* injected now (counted against MaxFaults).
StatementRaises ==
    /\ txAborted \/ faults < MaxFaults
    /\ faults' = IF txAborted THEN faults ELSE faults + 1

\* ----------------------------------------------------------- pure helpers
\* store_metadata_and_sales_snapshot, the pack_max_sold statements: insert
\* the reported count when the series has no row, else update only for an
\* int that exceeds the stored value (or when the stored value is NULL).
\* Variant without the "greater than the stored value" comparison.
MaxSoldAfter_Overwrite(old, ps) ==
    IF old = NoRow
    THEN (IF ps.kind = "null" THEN SqlNull ELSE ps.v)
    ELSE IF ps.kind = "int" THEN ps.v ELSE old

MaxSoldAfter(old, ps) ==
    IF old = NoRow
    THEN (IF ps.kind = "null" THEN SqlNull ELSE ps.v)
    ELSE IF ps.kind = "int" /\ (old = SqlNull \/ ps.v > old)
         THEN ps.v
         ELSE old

\* Variant whose lower bound is not strict.
RECURSIVE VerifyFrom_AtOrAfter(_, _, _, _)
VerifyFrom_AtOrAfter(cardId, feed, wm, i) ==
    IF i > Len(feed) THEN NoHit
    ELSE IF /\ feed[i].cardId = cardId
            /\ feed[i].createdAt \notin {None, Unparseable}
            /\ (wm = None \/ feed[i].createdAt >= wm)
         THEN feed[i]
         ELSE VerifyFrom_AtOrAfter(cardId, feed, wm, i + 1)

\* Variant that, without a watermark, accepts only a hit of the latest
\* instant.
RECURSIVE VerifyFrom_RecentOnly(_, _, _, _)
VerifyFrom_RecentOnly(cardId, feed, wm, i) ==
    IF i > Len(feed) THEN NoHit
    ELSE IF /\ feed[i].cardId = cardId
            /\ feed[i].createdAt \notin {None, Unparseable}
            /\ (IF wm = None THEN feed[i].createdAt >= MaxVerifyTime
                ELSE feed[i].createdAt > wm)
         THEN feed[i]
         ELSE VerifyFrom_RecentOnly(cardId, feed, wm, i + 1)

\* Variant that takes an item without createdAt as a match when there is no
\* watermark to compare it with.
RECURSIVE VerifyFrom_AcceptsUndated(_, _, _, _)
VerifyFrom_AcceptsUndated(cardId, feed, wm, i) ==
    IF i > Len(feed) THEN NoHit
    ELSE IF /\ feed[i].cardId = cardId
            /\ feed[i].createdAt # Unparseable
            /\ (wm = None \/ (feed[i].createdAt # None /\ feed[i].createdAt > wm))
         THEN feed[i]
         ELSE VerifyFrom_AcceptsUndated(cardId, feed, wm, i + 1)

\* The for loop of verify_sale_on_hit_feed from position i: an item of
\* another card, without createdAt or with a createdAt that does not parse
\* is passed over; with a watermark the item must be later than it.
RECURSIVE VerifyFrom(_, _, _, _)
VerifyFrom(cardId, feed, wm, i) ==
    IF i > Len(feed) THEN NoHit
    ELSE IF /\ feed[i].cardId = cardId
            /\ feed[i].createdAt \notin {None, Unparseable}
            /\ (wm = None \/ feed[i].createdAt > wm)
         THEN feed[i]
         ELSE VerifyFrom(cardId, feed, wm, i + 1)

\* verify_sale_on_hit_feed(card_to_verify, hit_feed_items, watermark).
verify_sale_on_hit_feed(cardId, feed, wm) ==
    IF feed = <<>> \/ cardId = None THEN NoHit ELSE VerifyFrom(cardId, feed, wm, 1)

\* The tuple appended to confirmed_sold_cards_for_db_insert.
SoldTuple(s, c, tier, hit, now) ==
    [series |-> s, card |-> c, tier |-> tier, hitId |-> hit.id,
     soldAt |-> IF hit # NoHit /\ hit.createdAt # None THEN hit.createdAt ELSE now,
     verified |-> hit # NoHit]

SwapRow(s, c, tier, now) == [series |-> s, card |-> c, tier |-> tier, at |-> now]

\* Variant whose INSERT has no ON CONFLICT clause.
InsertEvents_NoConflictClause(tbl, batch) == tbl (+) SetToBag(batch)

\* INSERT INTO sold_card_events ... ON CONFLICT (hit_feed_event_id) WHERE
\* hit_feed_event_id IS NOT NULL DO NOTHING, for every tuple of the batch
\* (the tuples of one batch are of different cards, so of different hits).
InsertEvents(tbl, batch) ==
    tbl (+) SetToBag({e \in batch :
                e.hitId = None \/ \A r \in BagToSet(tbl) : r.hitId # e.hitId})

\* Variant that examines again the cards logged as suspected swaps.
PotentialSold_WithSwapped(prev, current) ==
    (CardIds(prev) \cup {r.card : r \in BagToSet(swaps)}) \ CardIds(current)

\* potential_sold_card_ids = prev_card_ids_set - current_card_ids_set
PotentialSold(prev, current) == CardIds(prev) \ CardIds(current)

TargetSeq == [i \in 1..NumSeries |-> i]

\* ----------------------------------------------------------- run_tracker
\* Top of the while loop: take the sweep's start time, fetch the category
\* listing, resolve the targets.
SweepBegins ==
    /\ pc = "sweep"
    /\ clock + 2 <= MaxTime
    /\ clock' = clock + 2
    /\ sweepStart' = clock + 1
    /\ UNCHANGED aside

\* The listing cannot be fetched or has no items: sleep, continue.
SweepCategoriesFail ==
    /\ SweepBegins
    /\ pc' = "sweep"
    /\ UNCHANGED cyc
    /\ UNCHANGED <<tables, txAborted, queue, locals, faults>>
    /\ hist' = [hist EXCEPT !.resolved = {}]
    /\ UNCHANGED aside

\* Variant that gives up the rest of the target list at the first target
\* it cannot resolve.
SweepResolves_StopsAtUnresolved(disc) ==
    /\ SweepBegins
    /\ queue' = SelectSeq(TargetSeq, LAMBDA s : \A t \in 1..s : t \in disc)
    /\ pc' = IF queue' = <<>> THEN "sweep" ELSE "fetch"
    /\ UNCHANGED cyc
    /\ UNCHANGED <<tables, txAborted, locals, faults>>
    /\ hist' = [hist EXCEPT !.resolved = disc]
    /\ UNCHANGED aside

\* Targets resolve to the series of disc, kept in configured order; with
\* none resolved the sweep is skipped.
SweepResolves(disc) ==
    /\ SweepBegins
    /\ queue' = SelectSeq(TargetSeq, LAMBDA s : s \in disc)
    /\ pc' = IF disc = {} THEN "sweep" ELSE "fetch"
    /\ UNCHANGED cyc
    /\ UNCHANGED <<tables, txAborted, locals, faults>>
    /\ hist' = [hist EXCEPT !.resolved = disc]
    /\ UNCHANGED aside

SweepDiscover == \E disc \in SUBSET Listed : SweepResolves(disc)

\* The listing resolves every target.
SweepDiscoverAll == SweepResolves(Series)

\* After a series: the next one, or the next sweep.
Advance ==
    /\ queue' = Tail(queue)
    /\ pc' = IF Tail(queue) = <<>> THEN "sweep" ELSE "fetch"
    /\ ResetLocals

\* Variant that stamps the watermark of a series whose fetch failed.
FetchFail_StampsWatermark ==
    /\ pc = "fetch"
    /\ Advance
    /\ watermark' = [watermark EXCEPT ![Head(queue)] = sweepStart]
    /\ UNCHANGED <<meta, packSnaps, maxSold, totalSold, cardSnap, snapTime,
                   sold, swaps, tvRows, evRows>>
    /\ UNCHANGED <<txAborted, clock, sweepStart, faults>>
    /\ hist' = [hist EXCEPT !.skipped = Skip(Head(queue))]
    /\ UNCHANGED aside

\* Variant that fetches the same series again at once instead of going on
\* to the next one.
FetchFail_RetriesAtOnce ==
    /\ pc = "fetch"
    /\ pc' = "fetch"
    /\ UNCHANGED <<queue, locals, cyc>>
    /\ UNCHANGED <<tables, txAborted, clock, sweepStart, faults>>
    /\ hist' = [hist EXCEPT !.skipped = Skip(Head(queue))]
    /\ UNCHANGED aside

\* fetch_slab_pack returns None or a payload without id: skip the series.
FetchFail ==
    /\ pc = "fetch"
    /\ Advance
    /\ UNCHANGED <<tables, txAborted, clock, sweepStart, faults>>
    /\ hist' = [hist EXCEPT !.skipped = Skip(Head(queue))]
    /\ UNCHANGED aside

FetchOk ==
    /\ pc = "fetch"
    /\ \E p \in Payloads(Head(queue)) : payload' = p
    /\ pc' = "wm"
    /\ CycleBegins(payload'.id)
    /\ UNCHANGED <<tables, txAborted, clock, sweepStart, queue, wmRead,
                   soldCountApi, prevMap, todo, hitFeed, confirmed, newly, faults>>
    /\ UNCHANGED hist
    /\ UNCHANGED aside

\* fetch_slab_pack returns the payload of a series other than the one whose
\* id the listing gave: its id is the authoritative one from here on.
FetchOkOtherId ==
    /\ pc = "fetch"
    /\ \E s \in Series \ {Head(queue)} : \E p \in Payloads(s) : payload' = p
    /\ pc' = "wm"
    /\ CycleBegins(payload'.id)
    /\ UNCHANGED <<tables, txAborted, clock, sweepStart, queue, wmRead,
                   soldCountApi, prevMap, todo, hitFeed, confirmed, newly, faults>>
    /\ UNCHANGED hist
    /\ UNCHANGED aside

\* get_series_last_processed_time: no commit; an exception is swallowed
\* without a rollback and None is returned.
ReadWatermarkOk ==
    /\ pc = "wm" /\ ~txAborted
    /\ wmRead' = watermark[cur]
    /\ pc' = "meta"
    /\ Committed("wm")
    /\ UNCHANGED <<tables, txAborted, clock, sweepStart, queue, payload,
                   soldCountApi, prevMap, todo, hitFeed, confirmed, newly, faults>>
    /\ UNCHANGED hist
    /\ UNCHANGED aside

ReadWatermarkFail ==
    /\ pc = "wm" /\ StatementRaises
    /\ wmRead' = None
    /\ txAborted' = TRUE
    /\ pc' = "meta"
    /\ Raised("wm")
    /\ UNCHANGED <<tables, clock, sweepStart, queue, payload,
                   soldCountApi, prevMap, todo, hitFeed, confirmed, newly>>
    /\ UNCHANGED hist
    /\ UNCHANGED aside

\* store_metadata_and_sales_snapshot: one transaction.
StoreMetaOk ==
    /\ pc = "meta" /\ ~txAborted
    /\ meta' = [meta EXCEPT ![cur] = clock]
    /\ packSnaps' = [packSnaps EXCEPT ![cur] = @ + 1]
    /\ \E ps \in PacksSoldVals :
         /\ soldCountApi' = ps
         /\ maxSold' = [maxSold EXCEPT ![cur] = MaxSoldAfter(@, ps)]
    /\ pc' = "tv"
    /\ Committed("meta")
    /\ UNCHANGED <<totalSold, cardSnap, snapTime, sold, swaps, tvRows, evRows,
                   watermark, txAborted, clock, sweepStart, queue, payload, wmRead,
                   prevMap, todo, hitFeed, confirmed, newly, faults>>
    /\ UNCHANGED hist
    /\ UNCHANGED aside

StoreMetaFail ==
    /\ pc = "meta" /\ StatementRaises
    /\ txAborted' = FALSE
    /\ pc' = "tv"
    /\ Raised("meta")
    /\ UNCHANGED <<tables, clock, sweepStart, queue, locals>>
    /\ UNCHANGED hist
    /\ UNCHANGED aside

\* store_pack_total_value_snapshot
StoreTotalValueOk ==
    /\ pc = "tv" /\ ~txAborted
    /\ tvRows' = [tvRows EXCEPT ![cur] = @ + 1]
    /\ pc' = "ev"
    /\ soldCountApi' = NoCount
    /\ Committed("tv")
    /\ UNCHANGED <<meta, packSnaps, maxSold, totalSold, cardSnap, snapTime, sold,
                   swaps, evRows, watermark, txAborted, clock, sweepStart, queue,
                   payload, wmRead, prevMap, todo, hitFeed, confirmed, newly,
                   faults>>
    /\ UNCHANGED hist
    /\ UNCHANGED aside

StoreTotalValueFail ==
    /\ pc = "tv" /\ StatementRaises
    /\ txAborted' = FALSE
    /\ pc' = "ev"
    /\ soldCountApi' = NoCount
    /\ Raised("tv")
    /\ UNCHANGED <<tables, clock, sweepStart, queue, payload, wmRead, prevMap,
                   todo, hitFeed, confirmed, newly>>
    /\ UNCHANGED hist
    /\ UNCHANGED aside

\* calculate_and_store_ev_roi
StoreEvRoiOk ==
    /\ pc = "ev" /\ ~txAborted
    /\ evRows' = [evRows EXCEPT ![cur] = @ + 1]
    /\ pc' = "prev"
    /\ Committed("ev")
    /\ UNCHANGED <<meta, packSnaps, maxSold, totalSold, cardSnap, snapTime, sold,
                   swaps, tvRows, watermark, txAborted, clock, sweepStart, queue,
                   locals, faults>>
    /\ UNCHANGED hist
    /\ UNCHANGED aside

StoreEvRoiFail ==
    /\ pc = "ev" /\ StatementRaises
    /\ txAborted' = FALSE
    /\ pc' = "prev"
    /\ Raised("ev")
    /\ UNCHANGED <<tables, clock, sweepStart, queue, locals>>
    /\ UNCHANGED hist
    /\ UNCHANGED aside

\* --------------------------------------------- compute_and_store_sold_cards
\* The SELECT of the previous snapshot raises: return 0, no rollback.
ReadPrevFail ==
    /\ pc = "prev" /\ StatementRaises
    /\ txAborted' = TRUE
    /\ pc' = "wmupd"
    /\ Raised("prev")
    /\ UNCHANGED <<tables, clock, sweepStart, queue, locals>>
    /\ UNCHANGED hist
    /\ UNCHANGED aside

\* The previous snapshot is read, the disappeared cards computed and, when
\* one of them is of a tier to verify, the hit feed fetched.
ReadPrevOk ==
    /\ pc = "prev" /\ ~txAborted
    /\ prevMap' = cardSnap[cur]
    /\ todo' = PotentialSold(cardSnap[cur], payload.cards)
    /\ IF \E c \in todo' : prevMap'[c] \in TIERS_TO_VERIFY_ON_HIT_FEED
       THEN \E f \in FeedChoices(clock) : hitFeed' = f
       ELSE hitFeed' = <<>>
    /\ confirmed' = {}
    /\ newly' = 0
    /\ pc' = "loop"
    /\ Committed("prev")
    /\ UNCHANGED <<tables, txAborted, clock, sweepStart, queue, payload, wmRead,
                   soldCountApi, faults>>
    /\ hist' = [hist EXCEPT !.lastDiff =
            IF /\ @.runs >= 1 /\ @.series = cur /\ @.snap = cardSnap[cur]
               /\ @.cards = payload.cards /\ todo' # {}
            THEN [@ EXCEPT !.runs = 2]
            ELSE [series |-> cur, snap |-> cardSnap[cur], cards |-> payload.cards,
                  sold |-> sold, runs |-> 1]]
    /\ UNCHANGED aside

\* The card the loop body is classifying, and the verifier's answer for it.
NeedsVerify(c) == prevMap[c] \in TIERS_TO_VERIFY_ON_HIT_FEED
VerifiedHit(c) ==
    IF NeedsVerify(c) THEN verify_sale_on_hit_feed(c, hitFeed, wmRead) ELSE NoHit
IsSwap(c) == NeedsVerify(c) /\ VerifiedHit(c) = NoHit

\* Loop body, sale: a tier that is not verified, or a verified hit.
LoopConfirm(c) ==
    /\ pc = "loop" /\ c \in todo /\ ~IsSwap(c)
    /\ UNCHANGED cyc
    /\ newly' = newly + 1
    /\ confirmed' = confirmed \cup
                      {SoldTuple(cur, c, prevMap[c], VerifiedHit(c), clock)}
    /\ todo' = todo \ {c}
    /\ UNCHANGED <<tables, txAborted, clock, pc, sweepStart, queue, payload,
                   wmRead, soldCountApi, prevMap, hitFeed, faults>>
    /\ UNCHANGED hist
    /\ UNCHANGED aside

\* Loop body, swap: log_suspected_swap commits its own transaction.
LoopSwapOk(c) ==
    /\ pc = "loop" /\ c \in todo /\ IsSwap(c) /\ ~txAborted
    /\ Committed("swap")
    /\ swaps' = swaps (+) SetToBag({SwapRow(cur, c, prevMap[c], clock)})
    /\ todo' = todo \ {c}
    /\ UNCHANGED <<meta, packSnaps, maxSold, totalSold, cardSnap, snapTime, sold,
                   tvRows, evRows, watermark, txAborted, clock, pc, sweepStart,
                   queue, payload, wmRead, soldCountApi, prevMap, hitFeed,
                   confirmed, newly, faults>>
    /\ UNCHANGED hist
    /\ UNCHANGED aside

\* log_suspected_swap swallows the exception without a rollback.
LoopSwapFail(c) ==
    /\ pc = "loop" /\ c \in todo /\ IsSwap(c) /\ StatementRaises
    /\ Raised("swap")
    /\ txAborted' = TRUE
    /\ todo' = todo \ {c}
    /\ UNCHANGED <<tables, clock, pc, sweepStart, queue, payload, wmRead,
                   soldCountApi, prevMap, hitFeed, confirmed, newly>>
    /\ UNCHANGED hist
    /\ UNCHANGED aside

LoopDone == pc = "loop" /\ todo = {}

\* Batch insert of the confirmed sales and the total_sold upsert: one
\* transaction, entered only with a non-empty batch.
InsertSoldOk ==
    /\ LoopDone /\ confirmed # {} /\ ~txAborted
    /\ sold' = InsertEvents(sold, confirmed)
    /\ totalSold' = [totalSold EXCEPT ![cur] = IF newly > 0 THEN @ + newly ELSE @]
    /\ pc' = "replace"
    /\ Committed("insert")
    /\ UNCHANGED <<meta, packSnaps, maxSold, cardSnap, snapTime, swaps, tvRows,
                   evRows, watermark, txAborted, clock, sweepStart, queue, locals,
                   faults>>
    /\ UNCHANGED hist
    /\ UNCHANGED aside

InsertSoldFail ==
    /\ LoopDone /\ confirmed # {} /\ StatementRaises
    /\ txAborted' = FALSE
    /\ pc' = "replace"
    /\ Raised("insert")
    /\ UNCHANGED <<tables, clock, sweepStart, queue, locals>>
    /\ UNCHANGED hist
    /\ UNCHANGED aside

AtReplace == pc = "replace" \/ (LoopDone /\ confirmed = {})

\* DELETE the series' snapshot rows and INSERT the current cards: one
\* transaction.
ReplaceSnapshotOk ==
    /\ AtReplace /\ ~txAborted
    /\ cardSnap' = [cardSnap EXCEPT ![cur] = payload.cards]
    /\ snapTime' = [snapTime EXCEPT ![cur] =
                        IF CardIds(payload.cards) = {} THEN None ELSE clock]
    /\ pc' = "wmupd"
    /\ Committed("replace")
    /\ UNCHANGED <<meta, packSnaps, maxSold, totalSold, sold, swaps, tvRows,
                   evRows, watermark, txAborted, clock, sweepStart, queue, locals,
                   faults>>
    /\ hist' = [hist EXCEPT !.crashed =
            IF @.series = cur THEN NoCrash ELSE @]
    /\ UNCHANGED aside

ReplaceSnapshotFail ==
    /\ AtReplace /\ StatementRaises
    /\ txAborted' = FALSE
    /\ pc' = "wmupd"
    /\ Raised("replace")
    /\ UNCHANGED <<tables, clock, sweepStart, queue, locals>>
    /\ UNCHANGED hist
    /\ UNCHANGED aside

\* Variant that stamps the time of the call instead of the sweep's start.
UpdateWatermarkOk_StampsNow ==
    /\ pc = "wmupd" /\ ~txAborted
    /\ watermark' = [watermark EXCEPT ![cur] = clock]
    /\ Advance
    /\ UNCHANGED <<meta, packSnaps, maxSold, totalSold, cardSnap, snapTime, sold,
                   swaps, tvRows, evRows, txAborted, clock, sweepStart, faults>>
    /\ UNCHANGED hist
    /\ UNCHANGED aside

\* Variant keyed by the id the listing gave instead of the payload's.
UpdateWatermarkOk_DiscoveredId ==
    /\ pc = "wmupd" /\ ~txAborted
    /\ watermark' = [watermark EXCEPT ![Head(queue)] = sweepStart]
    /\ Advance
    /\ UNCHANGED <<meta, packSnaps, maxSold, totalSold, cardSnap, snapTime, sold,
                   swaps, tvRows, evRows, txAborted, clock, sweepStart, faults>>
    /\ UNCHANGED hist
    /\ UNCHANGED aside

\* update_series_last_processed_time(conn, id, sweep start), then the next
\* series.
UpdateWatermarkOk ==
    /\ pc = "wmupd" /\ ~txAborted
    /\ watermark' = [watermark EXCEPT ![cur] = sweepStart]
    /\ Advance
    /\ UNCHANGED <<meta, packSnaps, maxSold, totalSold, cardSnap, snapTime, sold,
                   swaps, tvRows, evRows, txAborted, clock, sweepStart, faults>>
    /\ UNCHANGED hist
    /\ UNCHANGED aside

\* The exception is swallowed without a rollback.
UpdateWatermarkFail ==
    /\ pc = "wmupd" /\ StatementRaises
    /\ txAborted' = TRUE
    /\ Advance
    /\ UNCHANGED <<tables, clock, sweepStart>>
    /\ UNCHANGED hist
    /\ UNCHANGED aside

\* The process is killed and restarted: uncommitted work and the locals are
\* lost, a new connection is opened, the loop starts a new sweep.
Crash ==
    /\ pc \notin {"sweep"}
    /\ faults < MaxFaults
    /\ faults' = faults + 1
    /\ txAborted' = FALSE
    /\ pc' = "sweep"
    /\ queue' = <<>>
    /\ ResetLocals
    /\ UNCHANGED <<tables, clock, sweepStart>>
    /\ hist' = [hist EXCEPT !.crashed =
            IF pc = "replace"
            THEN [series |-> cur, cards |-> {e.card : e \in confirmed},
                  sold |-> sold, total |-> totalSold[cur]]
            ELSE @]
    /\ UNCHANGED aside

Next ==
    \/ SweepCategoriesFail
    \/ SweepDiscover
    \/ FetchFail
    \/ FetchOk
    \/ ReadWatermarkOk
    \/ ReadWatermarkFail
    \/ StoreMetaOk
    \/ StoreMetaFail
    \/ StoreTotalValueOk
    \/ StoreTotalValueFail
    \/ StoreEvRoiOk
    \/ StoreEvRoiFail
    \/ ReadPrevOk
    \/ ReadPrevFail
    \/ \E c \in Cards : LoopConfirm(c)
    \/ \E c \in Cards : LoopSwapOk(c)
    \/ \E c \in Cards : LoopSwapFail(c)
    \/ InsertSoldOk
    \/ InsertSoldFail
    \/ ReplaceSnapshotOk
    \/ ReplaceSnapshotFail
    \/ UpdateWatermarkOk
    \/ UpdateWatermarkFail
    \/ Crash

Spec == Init /\ [][Next]_vars

\* ------------------------------------------- one sweep over every series
\* The database as a clean sweep over all series left it (sweep start at
\* MaxTime - 3, processing at MaxTime - 2), every series with a stored
\* snapshot that holds every card; the last sweep the clock allows then runs with
\* every target resolved.
FullCardSets == {m \in CardSets : CardIds(m) = Cards}
SweepInit ==
    /\ txRows = NoTx
    /\ seen = NotRead
    /\ wr = NoWriters
    /\ val = NoCall
    /\ evStore = NoRows
    /\ evTx = NoRows
    /\ client = NoRequest
    /\ cardSnap \in [Series -> FullCardSets]
    /\ snapTime = [s \in Series |->
                       IF CardIds(cardSnap[s]) = {} THEN None ELSE MaxTime - 2]
    /\ watermark = [s \in Series |-> MaxTime - 3]
    /\ meta = [s \in Series |-> MaxTime - 2]
    /\ packSnaps = [s \in Series |-> 1]
    /\ maxSold = [s \in Series |-> SqlNull]
    /\ totalSold = [s \in Series |-> 0]
    /\ sold = EmptyBag
    /\ swaps = EmptyBag
    /\ tvRows = [s \in Series |-> 1]
    /\ evRows = [s \in Series |-> 1]
    /\ txAborted = FALSE
    /\ clock = MaxTime - 2
    /\ pc = "sweep"
    /\ sweepStart = MaxTime - 3
    /\ queue = <<>>
    /\ payload = NoPayload
    /\ wmRead = None
    /\ soldCountApi = NoCount
    /\ prevMap = NoCards
    /\ todo = {}
    /\ hitFeed = <<>>
    /\ confirmed = {}
    /\ newly = 0
    /\ faults = 0
    /\ cyc = NoCyc
    /\ hist = NoHist

SweepNext ==
    \/ SweepDiscoverAll
    \/ FetchFail
    \/ FetchOk
    \/ ReadWatermarkOk
    \/ ReadWatermarkFail
    \/ StoreMetaOk
    \/ StoreMetaFail
    \/ StoreTotalValueOk
    \/ StoreTotalValueFail
    \/ StoreEvRoiOk
    \/ StoreEvRoiFail
    \/ ReadPrevOk
    \/ ReadPrevFail
    \/ \E c \in Cards : LoopConfirm(c)
    \/ \E c \in Cards : LoopSwapOk(c)
    \/ \E c \in Cards : LoopSwapFail(c)
    \/ InsertSoldOk
    \/ InsertSoldFail
    \/ ReplaceSnapshotOk
    \/ ReplaceSnapshotFail
    \/ UpdateWatermarkOk
    \/ UpdateWatermarkFail

SweepSpec == SweepInit /\ [][SweepNext]_vars

\* The same sweep when the detail endpoint may answer with another series'
\* payload.
FrameNext ==
    \/ SweepNext
    \/ FetchOkOtherId

\* Both series start from the same stored snapshot.
FrameInit == SweepInit /\ cardSnap[1] = cardSnap[2]

FrameSpec == FrameInit /\ [][FrameNext]_vars

\* --------------------------------------------- the loop that keeps polling
\* run_tracker's while True: every sweep resolves the listed targets, and
\* the detail fetch may fail in any sweep but the last one the clock allows
\* (the fetch succeeds in the end); the process is not killed. The loop
\* never blocks: every request has a timeout and every sleep is finite, so a
\* step that can be taken is taken.
SweepDiscoverListed == SweepResolves(Listed)

FetchFailsForNow ==
    /\ clock + 2 <= MaxTime
    /\ FetchFail

RetryNext ==
    \/ SweepDiscoverListed
    \/ FetchFailsForNow
    \/ FetchOk
    \/ ReadWatermarkOk
    \/ ReadWatermarkFail
    \/ StoreMetaOk
    \/ StoreMetaFail
    \/ StoreTotalValueOk
    \/ StoreTotalValueFail
    \/ StoreEvRoiOk
    \/ StoreEvRoiFail
    \/ ReadPrevOk
    \/ ReadPrevFail
    \/ \E c \in Cards : LoopConfirm(c)
    \/ \E c \in Cards : LoopSwapOk(c)
    \/ \E c \in Cards : LoopSwapFail(c)
    \/ InsertSoldOk
    \/ InsertSoldFail
    \/ ReplaceSnapshotOk
    \/ ReplaceSnapshotFail
    \/ UpdateWatermarkOk
    \/ UpdateWatermarkFail

\* The database as a clean sweep over all series left it, two sweeps before
\* the last one the clock allows (sweep start at MaxTime - 5, processing at
\* MaxTime - 4), every series holding the same full card set.
RetryInit ==
    /\ txRows = NoTx
    /\ seen = NotRead
    /\ wr = NoWriters
    /\ val = NoCall
    /\ evStore = NoRows
    /\ evTx = NoRows
    /\ client = NoRequest
    /\ cardSnap \in {[s \in Series |-> m] : m \in FullCardSets}
    /\ snapTime = [s \in Series |-> MaxTime - 4]
    /\ watermark = [s \in Series |-> MaxTime - 5]
    /\ meta = [s \in Series |-> MaxTime - 4]
    /\ packSnaps = [s \in Series |-> 1]
    /\ maxSold = [s \in Series |-> SqlNull]
    /\ totalSold = [s \in Series |-> 0]
    /\ sold = EmptyBag
    /\ swaps = EmptyBag
    /\ tvRows = [s \in Series |-> 1]
    /\ evRows = [s \in Series |-> 1]
    /\ txAborted = FALSE
    /\ clock = MaxTime - 4
    /\ pc = "sweep"
    /\ sweepStart = MaxTime - 5
    /\ queue = <<>>
    /\ payload = NoPayload
    /\ wmRead = None
    /\ soldCountApi = NoCount
    /\ prevMap = NoCards
    /\ todo = {}
    /\ hitFeed = <<>>
    /\ confirmed = {}
    /\ newly = 0
    /\ faults = 0
    /\ cyc = NoCyc
    /\ hist = NoHist

RetrySpec == RetryInit /\ [][RetryNext]_vars /\ WF_vars(RetryNext)

\* ------------------------------------- sweeps that resolve any targets
\* The sweep of SweepSpec when the listing may fail or resolve any of the
\* targets.
SweepDiscoverAny == \E disc \in SUBSET Series : SweepResolves(disc)

DiscoverNext ==
    \/ SweepCategoriesFail
    \/ SweepDiscoverAny
    \/ FetchFail
    \/ FetchOk
    \/ ReadWatermarkOk
    \/ ReadWatermarkFail
    \/ StoreMetaOk
    \/ StoreMetaFail
    \/ StoreTotalValueOk
    \/ StoreTotalValueFail
    \/ StoreEvRoiOk
    \/ StoreEvRoiFail
    \/ ReadPrevOk
    \/ ReadPrevFail
    \/ \E c \in Cards : LoopConfirm(c)
    \/ \E c \in Cards : LoopSwapOk(c)
    \/ \E c \in Cards : LoopSwapFail(c)
    \/ InsertSoldOk
    \/ InsertSoldFail
    \/ ReplaceSnapshotOk
    \/ ReplaceSnapshotFail
    \/ UpdateWatermarkOk
    \/ UpdateWatermarkFail

DiscoverSpec == FrameInit /\ [][DiscoverNext]_vars

\* ------------------------------------ the classification loop on its own
\* compute_and_store_sold_cards entered at its for loop: a stored snapshot,
\* a payload, the watermark that was read and the fetched hit feed are
\* drawn, the loop classifies every disappeared card.
VerifyItems ==
    {[id |-> HitIdOf(c, t), cardId |-> c, createdAt |-> t] :
        c \in Cards, t \in {None, Unparseable} \cup 1..MaxVerifyTime}
RECURSIVE VerifyFeedsOfLen(_)
VerifyFeedsOfLen(n) ==
    IF n = 0 THEN {<<>>}
    ELSE {Append(f, h) : f \in VerifyFeedsOfLen(n - 1), h \in VerifyItems}
VerifyFeeds ==
    {f \in UNION {VerifyFeedsOfLen(n) : n \in 0..MaxVerifyFeed} : Distinct(f)}
VerifyWatermarks == {None} \cup 1..(MaxVerifyTime - 1)

VerifyInit ==
    /\ txRows = NoTx
    /\ seen = NotRead
    /\ wr = NoWriters
    /\ val = NoCall
    /\ evStore = NoRows
    /\ evTx = NoRows
    /\ client = NoRequest
    /\ \E snap \in CardSets, cards \in CardSets, wm \in VerifyWatermarks :
         /\ cardSnap = [s \in Series |-> IF s = 1 THEN snap ELSE NoCards]
         /\ snapTime = [s \in Series |->
                            IF s = 1 /\ CardIds(snap) # {} THEN 1 ELSE None]
         /\ watermark = [s \in Series |-> IF s = 1 THEN wm ELSE None]
         /\ \E p \in Payloads(1) : p.cards = cards /\ payload = p
         /\ wmRead = wm
         /\ prevMap = snap
         /\ todo = PotentialSold(snap, cards)
         /\ hitFeed \in IF \E c \in todo : snap[c] \in TIERS_TO_VERIFY_ON_HIT_FEED
                         THEN VerifyFeeds ELSE {<<>>}
         /\ cyc = [snap |-> snap, sold |-> EmptyBag, swaps |-> EmptyBag,
                   total |-> 0, wm |-> wm, maxSold |-> SqlNull, faults |-> 0,
                   raised |-> {},
                   committed |-> {"wm", "meta", "tv", "ev", "prev"}]
    /\ meta = [s \in Series |-> IF s = 1 THEN MaxVerifyTime + 1 ELSE None]
    /\ packSnaps = [s \in Series |-> IF s = 1 THEN 2 ELSE 0]
    /\ maxSold = [s \in Series |-> IF s = 1 THEN SqlNull ELSE NoRow]
    /\ totalSold = [s \in Series |-> 0]
    /\ sold = EmptyBag
    /\ swaps = EmptyBag
    /\ tvRows = [s \in Series |-> IF s = 1 THEN 2 ELSE 0]
    /\ evRows = [s \in Series |-> IF s = 1 THEN 2 ELSE 0]
    /\ txAborted = FALSE
    /\ clock = MaxVerifyTime + 1
    /\ sweepStart = MaxVerifyTime
    /\ pc = "loop"
    /\ queue = <<1>>
    /\ soldCountApi = NoCount
    /\ confirmed = {}
    /\ newly = 0
    /\ faults = 0
    /\ hist = NoHist

VerifyNext ==
    \/ \E c \in Cards : LoopConfirm(c)
    \/ \E c \in Cards : LoopSwapOk(c)
    \/ \E c \in Cards : LoopSwapFail(c)

VerifySpec == VerifyInit /\ [][VerifyNext]_vars

\* ------------------------------------------- the replace, seen by a reader
\* The snapshot replace of compute_and_store_sold_cards statement by
\* statement, next to the dashboard's fetch_current_cards_in_pack.  The
\* tracker's connection does not autocommit: the DELETE opens a transaction
\* that the commit (or the rollback of the except branch) closes, and the
\* dashboard's single SELECT reads committed rows only.
ReplaceVars == <<meta, packSnaps, maxSold, totalSold, sold, swaps, tvRows,
                 evRows, watermark, clock, sweepStart, queue, locals, hist, wr,
                 valuation, client>>

\* Variant whose DELETE is committed on its own.
ReplaceDelete_Autocommit ==
    /\ pc = "replace" /\ ~txAborted
    /\ cardSnap' = [cardSnap EXCEPT ![cur] = NoCards]
    /\ snapTime' = [snapTime EXCEPT ![cur] = None]
    /\ txRows' = [open |-> TRUE, rows |-> NoCards]
    /\ pc' = "replace_insert"
    /\ UNCHANGED <<ReplaceVars, txAborted, faults, cyc, seen>>

\* DELETE FROM pack_card_snapshots WHERE series_id = ...
ReplaceDelete ==
    /\ pc = "replace" /\ ~txAborted
    /\ txRows' = [open |-> TRUE, rows |-> NoCards]
    /\ pc' = "replace_insert"
    /\ UNCHANGED <<ReplaceVars, cardSnap, snapTime, txAborted, faults, cyc, seen>>

\* executemany: the current cards' rows, one INSERT after the other, in the
\* order of the payload's list.
NextRow == payload.order[Cardinality(CardIds(txRows.rows)) + 1]
ReplaceInsertRow ==
    /\ pc = "replace_insert"
    /\ CardIds(txRows.rows) # CardIds(payload.cards)
    /\ txRows' = [txRows EXCEPT !.rows[NextRow] = payload.cards[NextRow]]
    /\ UNCHANGED <<ReplaceVars, cardSnap, snapTime, txAborted, pc, faults, cyc,
                   seen>>

\* conn.commit()
ReplaceCommit ==
    /\ pc = "replace_insert"
    /\ CardIds(txRows.rows) = CardIds(payload.cards)
    /\ cardSnap' = [cardSnap EXCEPT ![cur] = txRows.rows]
    /\ snapTime' = [snapTime EXCEPT ![cur] =
                        IF CardIds(txRows.rows) = {} THEN None ELSE clock]
    /\ txRows' = NoTx
    /\ pc' = "wmupd"
    /\ Committed("replace")
    /\ UNCHANGED <<ReplaceVars, txAborted, faults, seen>>

\* A statement of the replace raises: the except branch rolls back.
ReplaceRaise ==
    /\ pc \in {"replace", "replace_insert"} /\ StatementRaises
    /\ txRows' = NoTx
    /\ txAborted' = FALSE
    /\ pc' = "wmupd"
    /\ Raised("replace")
    /\ UNCHANGED <<ReplaceVars, cardSnap, snapTime, seen>>

\* fetch_current_cards_in_pack: one SELECT over pack_card_snapshots returns
\* the committed rows; without an engine, or when read_sql raises, the
\* function returns an empty frame.
ReaderQuery ==
    /\ \E o \in {"rows", "no_engine", "raised"} :
         seen' = [at |-> pc, tx |-> txRows, outcome |-> o,
                  rows |-> IF o = "rows" THEN cardSnap ELSE EmptyFrame]
    /\ UNCHANGED <<tables, txAborted, clock, pc, sweepStart, queue, locals,
                   faults, cyc, hist, txRows, wr, valuation, client>>

\* Series 1 is about to replace its stored snapshot with the cards of its
\* payload; series 2 has stored rows of its own.
ReaderInit ==
    /\ \E snap \in CardSets, cards \in CardSets, other \in CardSets :
         /\ cardSnap = [s \in Series |-> IF s = 1 THEN snap ELSE other]
         /\ snapTime = [s \in Series |->
                            IF CardIds(cardSnap[s]) # {} THEN 1 ELSE None]
         /\ \E p \in Payloads(1) : p.cards = cards /\ payload = p
         /\ prevMap = snap
         /\ cyc = [snap |-> snap, sold |-> EmptyBag, swaps |-> EmptyBag,
                   total |-> 0, wm |-> 1, maxSold |-> SqlNull, faults |-> 0,
                   raised |-> {},
                   committed |-> {"wm", "meta", "tv", "ev", "prev"}]
    /\ txRows = NoTx
    /\ seen = NotRead
    /\ wr = NoWriters
    /\ val = NoCall
    /\ evStore = NoRows
    /\ evTx = NoRows
    /\ client = NoRequest
    /\ meta = [s \in Series |-> 2]
    /\ packSnaps = [s \in Series |-> 2]
    /\ maxSold = [s \in Series |-> SqlNull]
    /\ totalSold = [s \in Series |-> 0]
    /\ sold = EmptyBag
    /\ swaps = EmptyBag
    /\ tvRows = [s \in Series |-> 2]
    /\ evRows = [s \in Series |-> 2]
    /\ watermark = [s \in Series |-> 1]
    /\ txAborted = FALSE
    /\ clock = 3
    /\ sweepStart = 2
    /\ pc = "replace"
    /\ queue = <<1>>
    /\ wmRead = 1
    /\ soldCountApi = NoCount
    /\ todo = {}
    /\ hitFeed = <<>>
    /\ confirmed = {}
    /\ newly = 0
    /\ faults = 0
    /\ hist = NoHist

ReaderNext ==
    \/ ReplaceDelete
    \/ ReplaceInsertRow
    \/ ReplaceCommit
    \/ ReplaceRaise
    \/ ReaderQuery

ReaderSpec == ReaderInit /\ [][ReaderNext]_vars

\* ------------------------------------- concurrent store_metadata callers
\* Writers run store_metadata_and_sales_snapshot for the same series, each
\* on a connection of its own (READ COMMITTED, no autocommit), statement by
\* statement: the pack_series_metadata upsert, the pack_snapshots insert,
\* SELECT max_sold ... FOR UPDATE, the INSERT or UPDATE of pack_max_sold,
\* commit.  Row locks are held until the holder's commit or rollback.
InTx(w) == wr[w].pc \in {"snap", "select", "write", "commit"}
HoldsMaxSoldRow(w) ==
    \/ wr[w].pc \in {"write", "commit"} /\ wr[w].result # NoRow
    \/ wr[w].pending # NoWrite

\* Variant in which only the row's own INSERT / UPDATE waits for its holder.
WaitsFor_WritesOnly(w, stmt) ==
    stmt = "write" /\ \E v \in Writers \ {w} : wr[v].pending # NoWrite

\* Does statement stmt of writer w wait for another writer's transaction?
\* The upsert waits for the holder of the series' metadata row (or of its
\* not yet committed key); the locking SELECT and the write wait for the
\* holder of the series' pack_max_sold row.
WaitsFor(w, stmt) ==
    \/ stmt = "upsert" /\ \E v \in Writers \ {w} : InTx(v)
    \/ stmt \in {"select", "write"} /\ \E v \in Writers \ {w} : HoldsMaxSoldRow(v)

WriterVars == <<totalSold, cardSnap, snapTime, sold, swaps,
                tvRows, evRows, watermark, sweepStart, queue, locals, cyc, hist,
                reader, valuation, client, pc>>

\* A statement is sent and has to wait.
WriterWaits(w) ==
    /\ wr[w].pc \in {"upsert", "select", "write"}
    /\ WaitsFor(w, wr[w].pc)
    /\ ~wr[w].waited
    /\ wr' = [wr EXCEPT ![w].waited = TRUE]
    /\ UNCHANGED <<WriterVars, meta, packSnaps, maxSold, txAborted, clock,
                   faults>>

\* INSERT INTO pack_series_metadata ... ON CONFLICT (series_id) DO UPDATE
WriterUpsert(w) ==
    /\ wr[w].pc = "upsert" /\ ~WaitsFor(w, "upsert")
    /\ wr' = [wr EXCEPT ![w].pc = "snap"]
    /\ UNCHANGED <<WriterVars, meta, packSnaps, maxSold, txAborted, clock,
                   faults>>

\* INSERT INTO pack_snapshots
WriterInsertSnapshot(w) ==
    /\ wr[w].pc = "snap"
    /\ wr' = [wr EXCEPT ![w].pc = "select"]
    /\ UNCHANGED <<WriterVars, meta, packSnaps, maxSold, txAborted, clock,
                   faults>>

\* SELECT max_sold FROM pack_max_sold WHERE series_id = ... FOR UPDATE
WriterSelect(w) ==
    /\ wr[w].pc = "select" /\ ~WaitsFor(w, "select")
    /\ wr' = [wr EXCEPT ![w].pc = "write", ![w].result = maxSold[cur]]
    /\ UNCHANGED <<WriterVars, meta, packSnaps, maxSold, txAborted, clock,
                   faults>>

\* The INSERT (no row was selected) or the UPDATE (an int above the selected
\* value), or neither.  An INSERT that finds the row another writer has
\* committed since the SELECT raises, and the except branch rolls back.
WriterWrite(w) ==
    /\ wr[w].pc = "write" /\ ~WaitsFor(w, "write")
    /\ LET new == MaxSoldAfter(wr[w].result, wr[w].count)
       IN wr' = IF wr[w].result = NoRow /\ maxSold[cur] # NoRow
                THEN [wr EXCEPT ![w].pc = "rolledback"]
                ELSE [wr EXCEPT ![w].pc = "commit",
                                ![w].pending = IF new = wr[w].result
                                               THEN NoWrite ELSE new]
    /\ UNCHANGED <<WriterVars, meta, packSnaps, maxSold, txAborted, clock,
                   faults>>

\* conn.commit(): the upserted metadata row, the pack_snapshots row and the
\* pending pack_max_sold write become the committed ones.
WriterCommit(w) ==
    /\ wr[w].pc = "commit"
    /\ meta' = [meta EXCEPT ![cur] = clock]
    /\ packSnaps' = [packSnaps EXCEPT ![cur] = @ + 1]
    /\ maxSold' = [maxSold EXCEPT ![cur] =
                       IF wr[w].pending = NoWrite THEN @ ELSE wr[w].pending]
    /\ wr' = [wr EXCEPT ![w].pc = "done", ![w].pending = NoWrite]
    /\ UNCHANGED <<WriterVars, txAborted, clock, faults>>

\* One of the writer's statements raises: conn.rollback().
WriterRaise(w) ==
    /\ wr[w].pc \in {"upsert", "snap", "select", "write", "commit"}
    /\ ~WaitsFor(w, wr[w].pc)
    /\ StatementRaises
    /\ wr' = [wr EXCEPT ![w].pc = "rolledback", ![w].pending = NoWrite]
    /\ UNCHANGED <<WriterVars, meta, packSnaps, maxSold, txAborted, clock>>

\* Every writer is about to make the call for series 1, with a packsSold of
\* its own; the series has no pack_max_sold row, or one with any value.
WriterInit ==
    /\ \E old \in {NoRow, SqlNull} \cup 0..MaxPacksSold :
         /\ maxSold = [s \in Series |-> IF s = 1 THEN old ELSE NoRow]
         /\ meta = [s \in Series |-> IF s = 1 /\ old # NoRow THEN 1 ELSE None]
         /\ packSnaps = [s \in Series |-> IF s = 1 /\ old # NoRow THEN 1 ELSE 0]
         /\ cyc = [NoCyc EXCEPT !.maxSold = old]
    /\ \E counts \in [Writers -> PacksSoldVals] :
         wr = [w \in Writers |-> [NoWriter EXCEPT !.pc = "upsert",
                                                  !.count = counts[w]]]
    /\ val = NoCall
    /\ evStore = NoRows
    /\ evTx = NoRows
    /\ client = NoRequest
    /\ txRows = NoTx
    /\ seen = NotRead
    /\ totalSold = [s \in Series |-> 0]
    /\ cardSnap = [s \in Series |-> NoCards]
    /\ snapTime = [s \in Series |-> None]
    /\ sold = EmptyBag
    /\ swaps = EmptyBag
    /\ tvRows = [s \in Series |-> 0]
    /\ evRows = [s \in Series |-> 0]
    /\ watermark = [s \in Series |-> None]
    /\ txAborted = FALSE
    /\ clock = 2
    /\ sweepStart = 2
    /\ pc = "meta"
    /\ queue = <<1>>
    /\ payload = [id |-> 1, cards |-> NoCards, order |-> <<>>]
    /\ wmRead = None
    /\ soldCountApi = NoCount
    /\ prevMap = NoCards
    /\ todo = {}
    /\ hitFeed = <<>>
    /\ confirmed = {}
    /\ newly = 0
    /\ faults = 0
    /\ hist = NoHist

WriterNext ==
    \E w \in Writers :
        \/ WriterWaits(w)
        \/ WriterUpsert(w)
        \/ WriterInsertSnapshot(w)
        \/ WriterSelect(w)
        \/ WriterWrite(w)
        \/ WriterCommit(w)
        \/ WriterRaise(w)

WriterSpec == WriterInit /\ [][WriterNext]_vars

\* ------------------------------------------ calculate_and_store_ev_roi
\* A category name is its text without trailing dots, and the number of
\* dots that follow it ("Misc." is Misc with one dot).
Name(base, dots) == [base |-> base, dots |-> dots]
STATIC_PACK_COSTS_CENTS ==
    (Name("Diamond", 0) :> 100000) @@ (Name("Emerald", 0) :> 50000)
    @@ (Name("Ruby", 0) :> 25000) @@ (Name("Gold", 0) :> 10000)
    @@ (Name("Silver", 0) :> 5000) @@ (Name("Misc", 1) :> 2500)
    @@ (Name("Misc", 0) :> 2500)
\* dict.get: the value, or None.
Lookup(name) ==
    IF name \in DOMAIN STATIC_PACK_COSTS_CENTS
    THEN STATIC_PACK_COSTS_CENTS[name] ELSE SqlNull

\* Variant without the second lookup.
get_static_pack_cost_ExactNameOnly(name) ==
    IF name.base = "" /\ name.dots = 0 THEN SqlNull ELSE Lookup(name)

\* The cost of the category, after a second lookup without the name's last
\* dot, or with one more dot when it has none; None when neither is a key.
get_static_pack_cost(name) ==
    IF name.base = "" /\ name.dots = 0 THEN SqlNull
    ELSE IF Lookup(name) # SqlNull THEN Lookup(name)
    ELSE IF name.dots > 0 THEN Lookup(Name(name.base, name.dots - 1))
    ELSE Lookup(Name(name.base, name.dots + 1))

\* Numbers the function holds as floats are fractions n / d, d > 0.
Frac(n, d) == [n |-> n, d |-> d]
FAdd(a, b) == Frac(a.n * b.d + b.n * a.d, a.d * b.d)
FScale(a, k) == Frac(a.n * k, a.d)
\* round(): to the nearest integer, a tie to the even one.
Round(f) ==
    LET q == f.n \div f.d
        r == f.n % f.d
    IN  IF 2 * r < f.d THEN q
        ELSE IF 2 * r > f.d THEN q + 1
        ELSE IF q % 2 = 0 THEN q ELSE q + 1

\* A card's estimatedValueCents: cents, or missing / null.
NoValue == SqlNull
CardValues == {NoValue, 1, 9000, 11000}
\* A tier's hitRate: a number, or something float() rejects.
Invalid == Frac(0, 0)
HitRates == {Invalid, Frac(1, 2), Frac(1, 1)}
RECURSIVE ValueListsOfLen(_)
ValueListsOfLen(n) ==
    IF n = 0 THEN {<<>>}
    ELSE {Append(l, v) : l \in ValueListsOfLen(n - 1), v \in CardValues}
Ascending(l) == \A i \in 1..(Len(l) - 1) : l[i] <= l[i + 1]
ValueLists ==
    {l \in UNION {ValueListsOfLen(n) : n \in 0..MaxTierCards} : Ascending(l)}
TierInfos == [isPremium : BOOLEAN, hitRate : HitRates, cards : ValueLists]
RECURSIVE TierListsOfLen(_)
TierListsOfLen(n) ==
    IF n = 0 THEN {<<>>}
    ELSE {Append(l, ti) : l \in TierListsOfLen(n - 1), ti \in TierInfos}
TierLists == UNION {TierListsOfLen(n) : n \in 0..MaxTiers}
Categories == {Name("Gold", 0), Name("Gold", 1), Name("Unknown", 0)}
\* numPremiumCardsPerPack may be null in the payload.
Packs == [tiers : TierLists, numPremium : {SqlNull} \cup 1..MaxSlots,
          numNonPremium : 0..(MaxSlots - 1), category : Categories]

\* sum_value_in_tier_cents: a value that is not a number adds 0.
RECURSIVE SumValues(_, _)
SumValues(cards, i) ==
    IF i > Len(cards) THEN 0
    ELSE (IF cards[i] = NoValue THEN 0 ELSE cards[i]) + SumValues(cards, i + 1)
HitRateOf(ti) == IF ti.hitRate = Invalid THEN Frac(0, 1) ELSE ti.hitRate
\* avg_value_in_tier_cents
AvgValue(ti) ==
    IF Len(ti.cards) > 0 THEN Frac(SumValues(ti.cards, 1), Len(ti.cards))
    ELSE Frac(0, 1)
\* tier_ev_contribution_cents
TierContribution(ti) ==
    Frac(AvgValue(ti).n * HitRateOf(ti).n, AvgValue(ti).d * HitRateOf(ti).d)
\* ev_premium_slot_total_cents / ev_non_premium_slot_total_cents
RECURSIVE SlotTotal(_, _, _)
SlotTotal(tiers, premium, i) ==
    IF i > Len(tiers) THEN Frac(0, 1)
    ELSE IF tiers[i].isPremium = premium
         THEN FAdd(TierContribution(tiers[i]), SlotTotal(tiers, premium, i + 1))
         ELSE SlotTotal(tiers, premium, i + 1)

\* expected_value_total_cents
ExpectedValue(pack) ==
    Round(FAdd(FScale(SlotTotal(pack.tiers, TRUE, 1), pack.numPremium),
               FScale(SlotTotal(pack.tiers, FALSE, 1), pack.numNonPremium)))

\* current_roi: a number (as a fraction), +infinity or None.
NoRoi == [kind |-> "null", n |-> 0, d |-> 1]
InfiniteRoi == [kind |-> "inf", n |-> 0, d |-> 1]
Roi(ev, cost) ==
    IF cost # SqlNull /\ cost > 0
    THEN [kind |-> "num", n |-> ev - cost, d |-> cost]
    ELSE IF cost = 0 THEN InfiniteRoi
    ELSE NoRoi

\* tier_contributions_for_db
Contributions(pack) ==
    [i \in 1..Len(pack.tiers) |->
        [tier |-> i, isPremium |-> pack.tiers[i].isPremium,
         hitRate |-> HitRateOf(pack.tiers[i]),
         numCards |-> Len(pack.tiers[i].cards),
         avg |-> Round(AvgValue(pack.tiers[i])),
         contribution |-> Round(TierContribution(pack.tiers[i]))]]

\* The row the first INSERT writes (snapshot_id is the call's number): the
\* statement names no buy-back column.
EvRow(v) ==
    [id |-> v.calls, ev |-> v.ev, cost |-> v.cost, roi |-> v.roi,
     numPremium |-> v.pack.numPremium, numNonPremium |-> v.pack.numNonPremium,
     evBb |-> SqlNull, costBb |-> SqlNull, roiBb |-> SqlNull]
TierRowsOf(v) ==
    [i \in 1..Len(v.contributions) |->
        [parent |-> v.calls, row |-> v.contributions[i]]]

ValuationVars == <<tables, clock, pc, sweepStart, queue, locals, cyc, hist,
                   reader, wr, client>>

\* The arithmetic before the try block.  A null slot count makes the
\* multiplication raise: the exception leaves the function and ends
\* run_tracker's loop.
ValuationComputes ==
    /\ val.pc = "called"
    /\ val' = IF val.pack.numPremium = SqlNull
              THEN [val EXCEPT !.pc = "fatal"]
              ELSE [val EXCEPT
                      !.pc = "insert_ev",
                      !.ev = ExpectedValue(val.pack),
                      !.cost = get_static_pack_cost(val.pack.category),
                      !.roi = Roi(ExpectedValue(val.pack),
                                  get_static_pack_cost(val.pack.category)),
                      !.contributions = Contributions(val.pack)]
    /\ UNCHANGED <<ValuationVars, evStore, evTx, txAborted, faults>>

\* Variant that commits the snapshot row before the tier rows are inserted.
ValuationInsertsRow_Commits ==
    /\ val.pc = "insert_ev" /\ ~txAborted
    /\ evStore' = [evStore EXCEPT !.ev = Append(@, EvRow(val))]
    /\ val' = [val EXCEPT !.pc = IF val.contributions # <<>> THEN "insert_tiers"
                                 ELSE "commit"]
    /\ UNCHANGED <<ValuationVars, evTx, txAborted, faults>>

\* INSERT INTO pack_ev_roi_snapshots ... RETURNING snapshot_id
ValuationInsertsRow ==
    /\ val.pc = "insert_ev" /\ ~txAborted
    /\ evTx' = [evTx EXCEPT !.ev = Append(@, EvRow(val))]
    /\ val' = [val EXCEPT !.pc = IF val.contributions # <<>> THEN "insert_tiers"
                                 ELSE "commit"]
    /\ UNCHANGED <<ValuationVars, evStore, txAborted, faults>>

\* executemany: INSERT INTO pack_tier_ev_contribution_snapshots
ValuationInsertsTiers ==
    /\ val.pc = "insert_tiers"
    /\ evTx' = [evTx EXCEPT !.tiers = @ \o TierRowsOf(val)]
    /\ val' = [val EXCEPT !.pc = "commit"]
    /\ UNCHANGED <<ValuationVars, evStore, txAborted, faults>>

\* conn.commit(): the rows of the transaction are the table's, the function
\* returns and run_tracker goes on to compute_and_store_sold_cards.
ValuationCommits ==
    /\ val.pc = "commit"
    /\ evStore' = [ev |-> evStore.ev \o evTx.ev,
                   tiers |-> evStore.tiers \o evTx.tiers]
    /\ evRows' = [evRows EXCEPT ![cur] = @ + Len(evTx.ev)]
    /\ evTx' = NoRows
    /\ val' = [val EXCEPT !.pc = "returned"]
    /\ pc' = "prev"
    /\ Committed("ev")
    /\ UNCHANGED <<meta, packSnaps, maxSold, totalSold, cardSnap, snapTime, sold,
                   swaps, tvRows, watermark, txAborted, clock, sweepStart, queue,
                   locals, faults, hist, reader, wr, client>>

\* A statement of the try block raises: rollback, the function returns and
\* run_tracker goes on to compute_and_store_sold_cards.
ValuationRaises ==
    /\ val.pc \in {"insert_ev", "insert_tiers", "commit"}
    /\ StatementRaises
    /\ txAborted' = FALSE
    /\ evTx' = NoRows
    /\ val' = [val EXCEPT !.pc = "returned", !.raisedAt = val.pc]
    /\ pc' = "prev"
    /\ Raised("ev")
    /\ UNCHANGED <<tables, clock, sweepStart, queue, locals, hist, reader, wr,
                   client, evStore>>

\* run_tracker is at the call again, in the next sweep, with a payload whose
\* tiers, slot counts and category are those of the sweep before.
ValuationCalledAgain ==
    /\ pc = "ev"
    /\ val.pc = "returned" /\ val.calls < MaxCalls
    /\ val' = [NoCall EXCEPT !.pc = "called", !.pack = val.pack,
                             !.calls = val.calls + 1]
    /\ UNCHANGED <<ValuationVars, evStore, evTx, txAborted, faults>>

\* run_tracker has fetched a payload of series 1 in the last sweep but one
\* that the clock allows, and calls the function.
ValuationInit ==
    /\ \E pack \in Packs : val = [NoCall EXCEPT !.pc = "called", !.pack = pack,
                                                !.calls = 1]
    /\ evStore = NoRows
    /\ evTx = NoRows
    /\ client = NoRequest
    /\ txRows = NoTx
    /\ seen = NotRead
    /\ wr = NoWriters
    /\ meta = [s \in Series |-> IF s = 1 THEN MaxTime - 2 ELSE None]
    /\ packSnaps = [s \in Series |-> IF s = 1 THEN 1 ELSE 0]
    /\ maxSold = [s \in Series |-> IF s = 1 THEN SqlNull ELSE NoRow]
    /\ totalSold = [s \in Series |-> 0]
    /\ cardSnap = [s \in Series |-> NoCards]
    /\ snapTime = [s \in Series |-> None]
    /\ sold = EmptyBag
    /\ swaps = EmptyBag
    /\ tvRows = [s \in Series |-> IF s = 1 THEN 1 ELSE 0]
    /\ evRows = [s \in Series |-> 0]
    /\ watermark = [s \in Series |-> None]
    /\ txAborted = FALSE
    /\ clock = MaxTime - 2
    /\ sweepStart = MaxTime - 3
    /\ pc = "ev"
    /\ queue = <<1>>
    /\ payload = [id |-> 1, cards |-> NoCards, order |-> <<>>]
    /\ wmRead = None
    /\ soldCountApi = NoCount
    /\ prevMap = NoCards
    /\ todo = {}
    /\ hitFeed = <<>>
    /\ confirmed = {}
    /\ newly = 0
    /\ faults = 0
    /\ cyc = [NoCyc EXCEPT !.committed = {"wm", "meta", "tv"}]
    /\ hist = NoHist

\* The call statement by statement, up to its return.
ValuationNext ==
    \/ ValuationComputes
    \/ ValuationInsertsRow
    \/ ValuationInsertsTiers
    \/ ValuationCommits
    \/ ValuationRaises

ValuationSpec == ValuationInit /\ [][ValuationNext]_vars

\* --------------------------------------------- the valuation, sweep after sweep
\* The call statement by statement, the rest of the series' cycle and the
\* next sweep up to its call, for the payloads of category Gold whose tiers
\* hold one card of 9000 cents each and that give no non-premium slot.
RevaluationInit ==
    /\ ValuationInit
    /\ val.pack.category = Name("Gold", 0)
    /\ val.pack.numNonPremium = 0
    /\ \A i \in 1..Len(val.pack.tiers) : val.pack.tiers[i].cards = <<9000>>

RevaluationNext ==
    \/ ValuationComputes
    \/ ValuationInsertsRow
    \/ ValuationInsertsTiers
    \/ ValuationCommits
    \/ ValuationRaises
    \/ ReadPrevOk
    \/ ReadPrevFail
    \/ ReplaceSnapshotOk
    \/ ReplaceSnapshotFail
    \/ UpdateWatermarkOk
    \/ UpdateWatermarkFail
    \/ SweepCategoriesFail
    \/ SweepDiscover
    \/ FetchFail
    \/ FetchOk
    \/ ReadWatermarkOk
    \/ ReadWatermarkFail
    \/ StoreMetaOk
    \/ StoreMetaFail
    \/ StoreTotalValueOk
    \/ StoreTotalValueFail
    \/ ValuationCalledAgain

RevaluationSpec == RevaluationInit /\ [][RevaluationNext]_vars

\* --------------------------------------------- the marketplace client
\* The bodies a 2xx response can carry when they parse as JSON.
JsonBodies ==
    {NullJson}
    \cup {Json("number", n, FALSE, "absent", 0) : n \in 0..MaxBody}
    \cup {Json("bool", n, FALSE, "absent", 0) : n \in 0..1}
    \cup {Json(sh, n, h, "absent", 0) :
            sh \in {"string", "array"}, n \in 0..MaxBody, h \in {FALSE}}
    \cup {Json(sh, n, TRUE, "absent", 0) :
            sh \in {"string", "array"}, n \in 1..MaxBody}
    \cup {Json("object", n, FALSE, "absent", 0) : n \in 0..MaxBody}
    \cup {Json("object", n, TRUE, "null", 0) : n \in 1..MaxBody}
    \cup {Json("object", n, TRUE, it, k) :
            n \in 1..MaxBody, it \in {"list", "string", "number", "object"},
            k \in 0..MaxBody}
    \cup {Json("object", n, TRUE, "bool", k) : n \in 1..MaxBody, k \in 0..1}

\* What requests.get, raise_for_status and response.json make of a request:
\* a connection error, a timeout, a 4xx/5xx status, a body that is not JSON,
\* a body of JSON nested deeper than the interpreter's recursion limit (the
\* decoder raises RecursionError, which is no ValueError), or a parsed body.
Responses ==
    {[kind |-> k, body |-> NullJson] :
        k \in {"network", "timeout", "http", "malformed", "too_deep"}}
    \cup {[kind |-> "ok", body |-> b] : b \in JsonBodies}

Returns(v) == [outcome |-> "returns", value |-> v, error |-> "none"]
\* The exception e leaves the function.
Raises(e) == [outcome |-> "raises", value |-> NullJson, error |-> e]
EmptyList == Json("array", 0, FALSE, "absent", 0)

\* Python's truth value of a parsed body.
Truthy(v) ==
    CASE v.shape = "null" -> FALSE
      [] OTHER -> v.size # 0

\* fetch_api_data: the parsed body, or None after any of the caught
\* exceptions (HTTPError, RequestException, ValueError); an exception of
\* response.json() that is none of these passes the except clauses.
fetch_api_data(r) ==
    CASE r.kind = "ok" -> Returns(r.body)
      [] r.kind = "too_deep" -> Raises("RecursionError")
      [] OTHER -> Returns(NullJson)

\* fetch_hit_feed_data_api: `data and "items" in data`, then len of and
\* return of data["items"], whatever its type: a list, a string or an object
\* is returned as it is, len of null, a number or a truth value raises.  An
\* exception of fetch_api_data passes through.
fetch_hit_feed_data_api(r) ==
    LET data == fetch_api_data(r).value
    IN  CASE fetch_api_data(r).outcome = "raises" -> fetch_api_data(r)
          [] fetch_api_data(r).outcome # "raises" /\ ~Truthy(data) ->
                Returns(EmptyList)
          [] Truthy(data) /\ data.shape \in {"number", "bool"} ->
                Raises("TypeError")      \* argument of type ... is not iterable
          [] Truthy(data) /\ data.shape \in {"string", "array", "object"}
             /\ ~data.has -> Returns(EmptyList)
          [] Truthy(data) /\ data.shape \in {"string", "array"} /\ data.has ->
                Raises("TypeError")      \* indices must be integers
          [] Truthy(data) /\ data.shape = "object" /\ data.has
             /\ data.items \in {"null", "number", "bool"} ->
                Raises("TypeError")      \* object of type ... has no len()
          [] Truthy(data) /\ data.shape = "object" /\ data.has
             /\ data.items \in {"string", "object"} ->
                Returns(Json(data.items, data.count, FALSE, "absent", 0))
          [] OTHER -> Returns(Json("array", data.count, FALSE, "absent", 0))

ClientVars == <<tables, txAborted, clock, pc, sweepStart, queue, locals,
                faults, cyc, hist, reader, wr, valuation>>

\* A caller enters one of the two functions and the server's answer is
\* fixed.
ClientCalls ==
    /\ client.pc = "idle"
    /\ \E fn \in {"fetch_api_data", "fetch_hit_feed_data_api"} :
       \E r \in Responses :
          client' = [pc |-> "called", fn |-> fn, response |-> r,
                     result |-> NoResult]
    /\ UNCHANGED ClientVars

FetchApiDataEnds ==
    /\ client.pc = "called" /\ client.fn = "fetch_api_data"
    /\ client' = [client EXCEPT !.pc = "ended",
                                !.result = fetch_api_data(client.response)]
    /\ UNCHANGED ClientVars

FetchHitFeedEnds ==
    /\ client.pc = "called" /\ client.fn = "fetch_hit_feed_data_api"
    /\ client' = [client EXCEPT !.pc = "ended",
                     !.result = fetch_hit_feed_data_api(client.response)]
    /\ UNCHANGED ClientVars

\* The next call starts from scratch.
ClientForgets ==
    /\ client.pc = "ended"
    /\ client' = NoRequest
    /\ UNCHANGED ClientVars

ClientNext ==
    \/ ClientCalls
    \/ FetchApiDataEnds
    \/ FetchHitFeedEnds
    \/ ClientForgets

ClientSpec == Init /\ [][ClientNext]_vars

\* ======================================================== claims C1 - C10
\* Number of rows of an event table B (a bag) for series s and card c with
\* is_hit_feed_verified = v.
SoldRows(B, s, c, v) ==
    LET S == {e \in BagToSet(B) :
                e.series = s /\ e.card = c /\ e.verified = v}
    IN  BagCardinality([e \in S |-> B[e]])
\* Number of rows of a table B (a bag) for series s and card c.
RowsOf(B, s, c) ==
    LET S == {e \in BagToSet(B) : e.series = s /\ e.card = c}
    IN  BagCardinality([e \in S |-> B[e]])
SoldRowsOf(B, s, c) == RowsOf(B, s, c)
SwapRowsOf(B, s, c) == RowsOf(B, s, c)
\* What the running cycle has stored so far, and the cards it found gone.
NewSold == sold (-) cyc.sold
NewSwaps == swaps (-) cyc.swaps
Disappeared == PotentialSold(cyc.snap, payload.cards)
\* compute_and_store_sold_cards has returned.
CycleEnd == pc = "wmupd"
\* ... and its snapshot replace committed: the disappearances are consumed.
Consumed == CycleEnd /\ "replace" \in cyc.committed
FailureFree == CycleEnd /\ cyc.raised = {}

\* C1 (tier gating): at the end of a cycle that replaced the snapshot, every
\* card that was in the stored snapshot, is absent from the payload and is of
\* a tier outside {Grail, Chase} has exactly one new SoldCardEvent, which is
\* unverified, and no new SuspectedSwap.
C1_TierGating ==
    Consumed =>
        \A c \in Disappeared :
            cyc.snap[c] \notin TIERS_TO_VERIFY_ON_HIT_FEED =>
                /\ SoldRows(NewSold, cur, c, FALSE) = 1
                /\ SoldRows(NewSold, cur, c, TRUE) = 0
                /\ SwapRowsOf(NewSwaps, cur, c) = 0

\* C2 (swap exclusivity): at the end of a cycle that replaced the snapshot,
\* every disappeared card of a tier in {Grail, Chase} for which the verifier
\* returned no hit has exactly one new SuspectedSwap and no new SoldCardEvent,
\* and total_sold grew by no more than the other disappeared cards.
C2_SwapExclusive ==
    Consumed =>
        \A c \in Disappeared :
            IsSwap(c) =>
                /\ SwapRowsOf(NewSwaps, cur, c) = 1
                /\ SoldRowsOf(NewSold, cur, c) = 0
                /\ totalSold[cur] - cyc.total
                     <= Cardinality({d \in Disappeared : ~IsSwap(d)})

\* C3 (end-to-end outcome): a cycle in which no step raised stores, for every
\* disappeared card, one SoldCardEvent (unverified for a tier that is not
\* verified, verified for a qualifying hit) or else one SuspectedSwap, nothing
\* for the other cards, adds to total_sold the number of SoldCardEvents it
\* stored, and leaves the stored snapshot equal to the payload's cards.
C3_CycleOutcome ==
    FailureFree =>
        /\ \A c \in Disappeared :
             IF IsSwap(c)
             THEN /\ SwapRowsOf(NewSwaps, cur, c) = 1
                  /\ SoldRowsOf(NewSold, cur, c) = 0
             ELSE /\ SwapRowsOf(NewSwaps, cur, c) = 0
                  /\ SoldRows(NewSold, cur, c, NeedsVerify(c)) = 1
                  /\ SoldRows(NewSold, cur, c, ~NeedsVerify(c)) = 0
        /\ \A c \in Cards \ Disappeared :
             SwapRowsOf(NewSwaps, cur, c) = 0 /\ SoldRowsOf(NewSold, cur, c) = 0
        /\ totalSold[cur] - cyc.total = BagCardinality(NewSold)
        /\ cardSnap[cur] = payload.cards

\* C4 (idempotent re-diff): when the diff has run a second time against the
\* same stored snapshot and the same payload cards, the two runs together
\* have stored at most one SoldCardEvent per disappeared card; stated here
\* for the cards whose sale needs no hit-feed match.
C4_IdempotentRediff ==
    (CycleEnd /\ hist.lastDiff.runs = 2 /\ hist.lastDiff.series = cur) =>
        \A c \in PotentialSold(hist.lastDiff.snap, hist.lastDiff.cards) :
            hist.lastDiff.snap[c] \notin TIERS_TO_VERIFY_ON_HIT_FEED =>
                SoldRowsOf(sold (-) hist.lastDiff.sold, cur, c) <= 1

\* C5 (crash atomicity): after a crash between the commit of a series'
\* SoldCardEvents and its snapshot replace, no further SoldCardEvent is stored
\* for the cards of that batch, and the re-diff adds to total_sold for the
\* other disappeared cards only.
C5_CrashAtomicity ==
    hist.crashed.series # None =>
        /\ \A c \in hist.crashed.cards :
             SoldRowsOf(sold (-) hist.crashed.sold, hist.crashed.series, c) = 0
        /\ (pc = "replace" /\ cur = hist.crashed.series) =>
             totalSold[cur] - cyc.total
                <= Cardinality(Disappeared \ hist.crashed.cards)

\* C6 (no lost disappearance): at the end of a cycle whose batch insert
\* raised and was rolled back, the stored snapshot is the one the cycle
\* started from.
C6_SnapshotKeptOnInsertFailure ==
    (CycleEnd /\ "insert" \in cyc.raised) => cardSnap[cur] = cyc.snap

\* C7 (watermark on failure): the watermark update that ends a cycle in
\* which the previous-snapshot read, the event insert or the snapshot replace
\* raised leaves the watermark unchanged.
C7_WatermarkKeptOnFailure ==
    [][(pc = "wmupd" /\ cyc.raised \cap {"prev", "insert", "replace"} # {})
          => watermark' = watermark]_vars

\* C8 (failed fetch): a step that leaves the fetch of a series without a
\* payload changes no persisted table.
C8_FailedFetchMutatesNothing ==
    [][(pc = "fetch" /\ pc' # "wm") => UNCHANGED tables]_vars

\* C8 witness: a fetch has just failed for a series that has a stored
\* snapshot, events and a watermark.
C8_Witness ==
    /\ pc = "sweep" /\ hist.skipped.at = clock /\ hist.skipped.series \in Series
    /\ cardSnap[hist.skipped.series] # NoCards
    /\ watermark[hist.skipped.series] # None
    /\ BagCardinality(sold) > 0

\* C9 (ratchet): no step lowers a series' stored max_sold (no row < NULL
\* < any count).
C9_RatchetMonotone ==
    [][\A s \in Series : maxSold'[s] >= maxSold[s]]_vars

\* C9 witness: store_metadata_and_sales_snapshot has committed with an int
\* packsSold below the stored max_sold.
C9_Witness ==
    /\ pc = "tv" /\ "meta" \in cyc.committed
    /\ soldCountApi.kind = "int" /\ soldCountApi.v < maxSold[cur]

\* C10 (snapshot reflects the last recorded poll): at the end of a cycle
\* that stored SoldCardEvents, the stored snapshot equals the payload's cards.
C10_SnapshotFollowsSales ==
    (CycleEnd /\ BagCardinality(NewSold) > 0) => cardSnap[cur] = payload.cards

\* ======================================================= claims C11 - C20
\* Disappeared cards the loop has already classified, and those it recorded
\* as sold.
Classified == Disappeared \ todo
ConfirmedCards == {e.card : e \in confirmed}
\* A feed item whose createdAt is present and parses.
Dated(h) == h.createdAt \notin {None, Unparseable}
\* Positions of the feed's items for card c.
MatchesOf(c) == {i \in DOMAIN hitFeed : hitFeed[i].cardId = c}
DatedMatchesOf(c) == {i \in MatchesOf(c) : Dated(hitFeed[i])}
\* The first of a non-empty set of positions.
FirstOf(I) == CHOOSE i \in I : \A j \in I : i <= j

\* C11 (strict lower bound): with a watermark, every verified sale of the
\* loop carries a feed item of its own card whose createdAt is strictly
\* later than the watermark, and a card of a verified tier without such an
\* item is not recorded as sold.
C11_StrictLowerBound ==
    wmRead # None =>
        /\ \A e \in confirmed :
             e.verified =>
                \E i \in MatchesOf(e.card) :
                    /\ hitFeed[i].id = e.hitId
                    /\ Dated(hitFeed[i])
                    /\ hitFeed[i].createdAt > wmRead
        /\ \A c \in Classified :
             (NeedsVerify(c) /\ \A i \in DatedMatchesOf(c) :
                                    hitFeed[i].createdAt <= wmRead)
                => c \notin ConfirmedCards

\* C11 witness: a verified sale was recorded although the feed also holds
\* an item of the same card created exactly at the watermark.
C11_Witness ==
    /\ wmRead # None
    /\ \E e \in confirmed :
         /\ e.verified
         /\ \E i \in MatchesOf(e.card) :
              hitFeed[i].createdAt = wmRead /\ hitFeed[i].id # e.hitId

\* C12 (as stated): without a watermark, a classified card of a verified
\* tier that has any feed item is recorded as sold with the first item of
\* that card in feed order.
C12_FirstMatchAccepted ==
    wmRead = None =>
        \A c \in Classified :
            (NeedsVerify(c) /\ MatchesOf(c) # {}) =>
                \E e \in confirmed :
                    e.card = c /\ e.hitId = hitFeed[FirstOf(MatchesOf(c))].id

\* C12 (amended): without a watermark, a classified card of a verified tier
\* is recorded as sold exactly when the feed has an item of that card with a
\* createdAt that parses, and then with the first such item in feed order,
\* however old it is.
C12_FirstDatedMatchAccepted ==
    wmRead = None =>
        \A c \in Classified :
            NeedsVerify(c) =>
                IF DatedMatchesOf(c) = {}
                THEN c \notin ConfirmedCards
                ELSE \E e \in confirmed :
                        /\ e.card = c
                        /\ e.hitId = hitFeed[FirstOf(DatedMatchesOf(c))].id
                        /\ e.soldAt = hitFeed[FirstOf(DatedMatchesOf(c))].createdAt

\* C12 witness: without a watermark the oldest hit was accepted because it
\* comes first, though a newer hit of the same card follows it in the feed.
C12_Witness ==
    /\ wmRead = None
    /\ \E e \in confirmed :
         \E i, j \in MatchesOf(e.card) :
            /\ i < j
            /\ hitFeed[i].id = e.hitId /\ hitFeed[i].createdAt = 1
            /\ hitFeed[j].createdAt = MaxVerifyTime

\* C13 (ambiguity is a non-match): a verified sale never carries an item
\* without a createdAt that parses; a card with a qualifying item is recorded
\* as sold also when undated items of it come first; a card whose only
\* items are undated is not recorded as sold and its SuspectedSwap is
\* written (or the write raised); a card without id verifies to no hit.
C13_AmbiguityIsNonMatch ==
    /\ \A e \in confirmed :
         e.verified =>
            \E i \in MatchesOf(e.card) :
                hitFeed[i].id = e.hitId /\ Dated(hitFeed[i])
    /\ \A c \in Classified :
         NeedsVerify(c) =>
            /\ (\E i \in DatedMatchesOf(c) :
                    wmRead = None \/ hitFeed[i].createdAt > wmRead)
                 => c \in ConfirmedCards
            /\ (MatchesOf(c) # {} /\ DatedMatchesOf(c) = {})
                 => /\ c \notin ConfirmedCards
                    /\ \/ SwapRowsOf(swaps, cur, c) = 1
                       \/ "swap" \in cyc.raised
    /\ verify_sale_on_hit_feed(None, hitFeed, wmRead) = NoHit

\* C13 witness: one card was logged as a swap with only undated items in
\* the feed, another was recorded as sold with an item that follows an
\* undated item of the same card.
C13_Witness ==
    /\ \E r \in BagToSet(swaps) :
         MatchesOf(r.card) # {} /\ DatedMatchesOf(r.card) = {}
    /\ \E e \in confirmed :
         \E i, j \in MatchesOf(e.card) :
            i < j /\ ~Dated(hitFeed[i]) /\ hitFeed[j].id = e.hitId

\* Rows of sold_card_events with hit_feed_event_id h.
RowsWithHit(B, h) == {r \in BagToSet(B) : r.hitId = h}
\* Number of sold_card_events rows of series s.
SoldCount(s) ==
    LET S == {e \in BagToSet(sold) : e.series = s}
    IN  BagCardinality([e \in S |-> sold[e]])

\* C14 (hit-feed dedup): in every state sold_card_events holds at most one
\* row per non-null hit_feed_event_id, and a batch insert leaves the rows of
\* an already stored hit_feed_event_id as they were and adds none for it.
C14_OneEventPerHitId ==
    /\ [](\A e \in BagToSet(sold) :
            e.hitId # None => sold[e] = 1 /\ RowsWithHit(sold, e.hitId) = {e})
    /\ [][\A e \in confirmed :
            (LoopDone /\ e.hitId # None /\ RowsWithHit(sold, e.hitId) # {}) =>
                /\ RowsWithHit(sold', e.hitId) = RowsWithHit(sold, e.hitId)
                /\ \A r \in RowsWithHit(sold, e.hitId) : sold'[r] = sold[r]]_vars

\* C14 witness: the batch insert has committed with a tuple whose
\* hit_feed_event_id was stored before the cycle began.
C14_Witness ==
    /\ pc = "replace" /\ "insert" \in cyc.committed
    /\ \E e \in confirmed :
         e.hitId # None /\ RowsWithHit(cyc.sold, e.hitId) # {}

\* C15 (total_sold = number of events): in every state each series'
\* total_sold equals the number of its sold_card_events rows.
C15_TotalSoldCountsEvents ==
    \A s \in Series : totalSold[s] = SoldCount(s)

\* C16 (series isolation): in the cycle of a series that is not the first of
\* its sweep, as long as no statement of that cycle has failed on its own,
\* no step of the cycle has raised and the watermark used for verification
\* is the one stored for the series.
C16_SeriesIsolation ==
    (cur # None /\ Len(queue) < NumSeries /\ faults = cyc.faults) =>
        /\ cyc.raised = {}
        /\ pc # "wm" => wmRead = cyc.wm

\* C17 (watermark = sweep start): a step changes a watermark only for the
\* series being processed and only to the time taken at the start of the
\* running sweep, which is earlier than the time of processing; the update
\* that commits stores that value; until then the stored watermark is the
\* one the cycle began with, and that is the value a successful read handed
\* to the verifier.
C17_WatermarkIsSweepStart ==
    /\ [][\A s \in Series :
            watermark'[s] # watermark[s] =>
                s = cur /\ watermark'[s] = sweepStart /\ sweepStart < clock]_vars
    /\ [][(pc = "wmupd" /\ ~txAborted /\ ~txAborted' /\ faults' = faults
            /\ pc' # "wmupd") => watermark'[cur] = sweepStart]_vars
    /\ [](cur # None =>
            /\ watermark[cur] = cyc.wm
            /\ "wm" \in cyc.committed => wmRead = cyc.wm)

\* C17 witness: the sweep is over and every series carries the sweep's start
\* time, which differs from the watermark it had and from the time of
\* processing.
C17_Witness ==
    /\ pc = "sweep" /\ clock = MaxTime /\ sweepStart = MaxTime - 1
    /\ \A s \in Series : watermark[s] = sweepStart /\ meta[s] = clock

\* C18 (conservative window): in every state, a series that has a stored
\* watermark and stored snapshot rows has a watermark that is not later than
\* the time those rows were taken.
C18_WatermarkNotAfterSnapshot ==
    \A s \in Series :
        (watermark[s] # None /\ snapTime[s] # None) => watermark[s] <= snapTime[s]

\* C19 (step order of section 4.1): while a series' cycle has not reached
\* its watermark update, no valuation row of the cycle is committed and
\* max_sold is what it was when the cycle began (valuation comes after the
\* snapshot replace, the ratchet after the watermark advance).
C19_StepOrder ==
    (cur # None /\ pc # "wmupd") =>
        /\ "ev" \notin cyc.committed
        /\ maxSold[cur] = cyc.maxSold

\* C20 (atomic snapshot replace for readers): at any moment of the
\* replace, the rows the dashboard's SELECT observed for the series being
\* replaced are the complete previous card set or the complete new card
\* set (never the empty set after the DELETE, never a mixture), and for any
\* other series its stored set.  A call that made no query (no engine) or
\* whose query raised has observed no rows of any state.
C20_ReaderSeesOldOrNew ==
    seen.outcome = "rows" =>
        /\ seen.rows[cur] \in {cyc.snap, payload.cards}
        /\ \A s \in Series \ {cur} : seen.rows[s] = cardSnap[s]

\* The dashboard queried after the DELETE and part of the INSERTs, while the
\* transaction's rows were neither the old nor the new set, and got the old
\* set; the replace has since committed a different non-empty set.
C20_Witness ==
    /\ seen.at = "replace_insert"
    /\ seen.outcome = "rows"
    /\ seen.tx.rows \notin {cyc.snap, payload.cards}
    /\ seen.rows[cur] = cyc.snap
    /\ CardIds(cyc.snap) # {}
    /\ pc = "wmupd" /\ "replace" \in cyc.committed
    /\ cardSnap[cur] = payload.cards
    /\ cardSnap[cur] # cyc.snap

MaxOf(S) == CHOOSE x \in S : \A y \in S : y <= x

\* C21 (no lost ratchet update): once every concurrent writer has committed
\* an int sold count, the stored max_sold is the largest of the value stored
\* before (if any) and the writers' counts.
C21_NoLostRatchetUpdate ==
    (\A w \in Writers : wr[w].pc = "done" /\ wr[w].count.kind = "int") =>
        maxSold[cur] = MaxOf({wr[w].count.v : w \in Writers}
                             \cup ({cyc.maxSold} \ {NoRow, SqlNull}))

\* Two writers with different counts, no row beforehand, the one with the
\* larger count committed while the other's statement was waiting.
C21_Witness ==
    /\ \A w \in Writers : wr[w].pc = "done" /\ wr[w].count.kind = "int"
    /\ cyc.maxSold = NoRow
    /\ \E v, w \in Writers : wr[v].count.v < wr[w].count.v /\ wr[v].waited

\* The rows of bag B that are keyed by series s.
SeriesRows(B, s) ==
    LET S == {e \in BagToSet(B) : e.series = s} IN [e \in S |-> B[e]]
\* Every stored row keyed by series s.
RowsKeyed(s) ==
    <<meta[s], packSnaps[s], maxSold[s], totalSold[s], cardSnap[s], snapTime[s],
      tvRows[s], evRows[s], watermark[s], SeriesRows(sold, s),
      SeriesRows(swaps, s)>>
\* Every step leaves the rows of all series but the payload's unchanged, and
\* what its SELECTs return are rows of the payload's series.
KeyedByPayloadId ==
    /\ \A s \in Series \ {cur} : RowsKeyed(s)' = RowsKeyed(s)
    /\ wmRead' # wmRead => wmRead' \in {watermark[cur], None}
    /\ prevMap' # prevMap => prevMap' \in {cardSnap[cur], NoCards}
\* The batch insert stores every queued event unless an event of the same
\* series has its hit id: rows of other series do not bear on it.
InsertIgnoresOtherSeries ==
    ("insert" \in cyc'.committed /\ "insert" \notin cyc.committed) =>
        \A e \in confirmed :
            (e.hitId = None
             \/ \A r \in BagToSet(SeriesRows(sold, cur)) : r.hitId # e.hitId)
            => BagIn(e, sold')

\* C22 (disjoint write sets), as stated: a series' cycle writes only rows
\* keyed by the payload's id, and what it does depends only on rows keyed by
\* that id.
C22_ReadsAndWritesKeyed == [][KeyedByPayloadId /\ InsertIgnoresOtherSeries]_vars

\* C22, amended: a series' cycle writes only rows keyed by the payload's id
\* and its SELECTs read only rows keyed by that id (the event insert still
\* consults the hit ids stored for every series).
C22_WritesAndSelectsKeyed == [][KeyedByPayloadId]_vars

\* A cycle whose payload carries another id than the listing gave has
\* stored events and replaced the snapshot under the payload's id.
C22_Witness ==
    /\ pc = "wmupd" /\ cur # None /\ cur # Head(queue)
    /\ "replace" \in cyc.committed
    /\ NewSold # EmptyBag
    /\ cardSnap[cur] # cyc.snap

\* C23 (a SuspectedSwap is never promoted): no step stores a SoldCardEvent
\* for a card that has a SuspectedSwap row and is no longer in the series'
\* stored snapshot.
C23_SwapNeverPromoted ==
    [][\A s \in Series, c \in Cards :
          (SwapRowsOf(swaps, s, c) > 0 /\ c \notin CardIds(cardSnap[s]))
          => SoldRowsOf(sold', s, c) = SoldRowsOf(sold, s, c)]_vars

\* A later cycle of the series has run its diff to the end with a hit feed
\* that holds an acceptable item for a card logged as a swap before the cycle
\* began and absent from the snapshot the cycle started from.
C23_Witness ==
    /\ pc = "wmupd" /\ cur # None
    /\ \E c \in Cards :
         /\ SwapRowsOf(cyc.swaps, cur, c) > 0
         /\ c \notin CardIds(cyc.snap)
         /\ c \notin CardIds(payload.cards)
         /\ verify_sale_on_hit_feed(c, hitFeed, wmRead) # NoHit
         /\ SoldRowsOf(sold, cur, c) = 0

\* The call has done its arithmetic.
Computed == val.pc \in {"insert_ev", "insert_tiers", "commit", "returned"}
\* Is row r a prefix of what the table holds after the step?
IsPrefix(a, b) == Len(a) <= Len(b) /\ \A i \in 1..Len(a) : b[i] = a[i]

\* C24 (valuation is re-stored every cycle): every call made after a
\* successful fetch ends with one more EV/ROI row and one more tier row per
\* tier of the payload, and no step changes or removes a stored row.
C24_OneRowPerCall ==
    /\ [](val.pc \in {"returned", "fatal"} =>
            /\ Len(evStore.ev) = val.calls
            /\ Len(evStore.tiers) = val.calls * Len(val.pack.tiers))
    /\ [][/\ IsPrefix(evStore.ev, evStore'.ev)
          /\ IsPrefix(evStore.tiers, evStore'.tiers)]_vars

\* C25 (EV/ROI row and tier rows are stored atomically): every committed
\* EV/ROI row has one committed tier row per tier of its payload, and every
\* committed tier row has its committed parent.
C25_RowAndTiersTogether ==
    /\ \A i \in 1..Len(evStore.ev) :
         Cardinality({j \in 1..Len(evStore.tiers) :
                         evStore.tiers[j].parent = evStore.ev[i].id})
           = Len(val.pack.tiers)
    /\ \A j \in 1..Len(evStore.tiers) :
         \E i \in 1..Len(evStore.ev) : evStore.ev[i].id = evStore.tiers[j].parent

\* The second call's tier insert raised after its EV/ROI row was inserted:
\* the store holds the first call's rows only.
C25_Witness ==
    /\ val.pc = "returned" /\ val.calls = 2
    /\ val.raisedAt = "insert_tiers"
    /\ Len(val.pack.tiers) = 2
    /\ Len(evStore.ev) = 1 /\ Len(evStore.tiers) = 2

\* The name with its last dot removed, or with a dot added when it has none.
DotVariant(name) ==
    IF name.dots > 0 THEN Name(name.base, name.dots - 1)
    ELSE Name(name.base, name.dots + 1)

\* C26 (ROI definition): for a cost c > 0 the ROI is EV / c - 1, that is
\* (EV - c) / c; for c = 0 it is +infinity; the cost is unknown exactly when
\* neither the category name nor its trailing-dot variant is in the cost
\* table, and then the ROI is null.
C26_RoiDefinition ==
    Computed =>
        /\ (val.cost # SqlNull /\ val.cost > 0) =>
              /\ val.roi.kind = "num"
              /\ val.roi.n * val.cost = (val.ev - val.cost) * val.roi.d
              /\ (val.ev = 9000 /\ val.cost = 10000) => 10 * val.roi.n = -val.roi.d
              /\ (val.ev = 11000 /\ val.cost = 10000) => 10 * val.roi.n = val.roi.d
        /\ Roi(val.ev, 0) = InfiniteRoi
        /\ val.cost = SqlNull <=>
              /\ val.pack.category \notin DOMAIN STATIC_PACK_COSTS_CENTS
              /\ DotVariant(val.pack.category) \notin DOMAIN STATIC_PACK_COSTS_CENTS
        /\ val.cost = SqlNull => val.roi = NoRoi
        /\ val.cost # SqlNull =>
              val.cost \in {STATIC_PACK_COSTS_CENTS[k] :
                              k \in {val.pack.category, DotVariant(val.pack.category)}
                                    \cap DOMAIN STATIC_PACK_COSTS_CENTS}

\* A pack of category "Gold." with EV 9000 is stored with cost 10000 and
\* ROI -1/10.
C26_Witness ==
    /\ val.pc = "returned" /\ val.raisedAt = "none"
    /\ val.pack.category = Name("Gold", 1)
    /\ val.ev = 9000 /\ val.cost = 10000
    /\ evStore.ev[Len(evStore.ev)].roi = [kind |-> "num", n |-> -1000, d |-> 10000]

\* Every card of the tier has a value / the tier's hit rate is a number.
AllKnown(ti) == \A k \in 1..Len(ti.cards) : ti.cards[k] # NoValue
Priced(ti) == AllKnown(ti) /\ ti.hitRate # Invalid
\* The mean of the tier's card values (0 for an empty tier) times its hit
\* rate, and the sum of that over the tiers of one partition, taken from the
\* last tier to the first.
RECURSIVE Total(_)
Total(l) == IF l = <<>> THEN 0 ELSE l[Len(l)] + Total(SubSeq(l, 1, Len(l) - 1))
MeanTimesRate(ti) ==
    IF ti.cards = <<>> THEN Frac(0, 1)
    ELSE Frac(Total(ti.cards) * ti.hitRate.n, Len(ti.cards) * ti.hitRate.d)
RECURSIVE PartitionSum(_, _, _)
PartitionSum(tiers, premium, n) ==
    IF n = 0 THEN Frac(0, 1)
    ELSE IF tiers[n].isPremium = premium
         THEN FAdd(PartitionSum(tiers, premium, n - 1), MeanTimesRate(tiers[n]))
         ELSE PartitionSum(tiers, premium, n - 1)

\* The figures the EV formula gives for a payload.  A tier without cards
\* contributes 0; the mean of a tier with a card of unknown value, and the
\* product with a hit rate that is no number, are no numbers and neither is
\* an EV made of them (null propagates); an absent slot count counts 0.
HasFigure(ti) == ti.cards = <<>> \/ Priced(ti)
FormulaContribution(ti) ==
    IF HasFigure(ti) THEN Round(MeanTimesRate(ti)) ELSE SqlNull
SlotCount(n) == IF n = SqlNull THEN 0 ELSE n
FormulaEv(pack) ==
    IF \A i \in 1..Len(pack.tiers) : HasFigure(pack.tiers[i])
    THEN Round(FAdd(
             FScale(PartitionSum(pack.tiers, TRUE, Len(pack.tiers)),
                    SlotCount(pack.numPremium)),
             FScale(PartitionSum(pack.tiers, FALSE, Len(pack.tiers)),
                    SlotCount(pack.numNonPremium))))
    ELSE SqlNull

\* C27 (EV formula): for every payload the call is made with, the
\* arithmetic ends with figures (it does not raise), each tier's
\* contribution is mean(estimated values of its cards) x hit rate (0 for an
\* empty tier), and EV = premium sum x numPremiumCardsPerPack + non-premium
\* sum x numNonPremiumCardsPerPack, rounded to the nearest cent.
C27_EvFormula ==
    val.pc \notin {"idle", "called"} =>
        /\ Computed
        /\ \A i \in 1..Len(val.pack.tiers) :
             val.contributions[i].contribution
                = FormulaContribution(val.pack.tiers[i])
        /\ val.ev = FormulaEv(val.pack)

\* The same for the payloads whose figures are all numbers: every tier is
\* empty or has a value for each card and a numeric hit rate, and the
\* premium slot count is present.  On these the code computes the formula.
EvFormulaOnNumbers ==
    (/\ val.pc \notin {"idle", "called"}
     /\ val.pack.numPremium # SqlNull
     /\ \A i \in 1..Len(val.pack.tiers) : HasFigure(val.pack.tiers[i])) =>
        /\ Computed
        /\ \A i \in 1..Len(val.pack.tiers) :
             val.contributions[i].contribution
                = Round(MeanTimesRate(val.pack.tiers[i]))
        /\ val.ev = FormulaEv(val.pack)

\* C28 (unknown card values are not coerced to 0): a tier with a card whose
\* value is missing has a null average, and the EV of its payload is null.
C28_UnknownPropagates ==
    Computed =>
        \A i \in 1..Len(val.pack.tiers) :
            ~AllKnown(val.pack.tiers[i]) =>
                /\ val.contributions[i].avg = SqlNull
                /\ val.ev = SqlNull

\* C29 (buyback variant): every stored EV/ROI row carries a buyback EV, cost
\* and ROI; the buyback cost is 1.10 x the static cost and the buyback EV is
\* at least the standard EV.
C29_BuybackStored ==
    \A i \in 1..Len(evStore.ev) :
        evStore.ev[i].cost # SqlNull =>
            /\ evStore.ev[i].evBb # SqlNull
            /\ evStore.ev[i].roiBb # SqlNull
            /\ 10 * evStore.ev[i].costBb = 11 * evStore.ev[i].cost
            /\ evStore.ev[i].evBb >= evStore.ev[i].ev

\* C30 (retry is the next sweep): a series whose fetch failed in a sweep is
\* not fetched again in that sweep; and when the fetch failed with a further
\* sweep to come, the series is fetched again later and its diff then reads
\* the snapshot and the watermark that were stored when it was skipped,
\* unless the read of the watermark or of the previous snapshot raises in
\* that cycle.
SkippedNow(s) == hist.skipped.series = s /\ hist.skipped.at = clock
NoRetryInSweep == (FetchOk \/ FetchFail) => ~SkippedNow(Head(queue))
RetryPending(s) ==
    /\ SkippedNow(s) /\ pc = "sweep"
    /\ clock + 2 <= MaxTime
ProcessedAfterSkip(s) ==
    /\ pc = "loop" /\ cur = s
    /\ hist.skipped.series = s /\ clock > hist.skipped.at
    /\ prevMap = hist.skipped.snap
    /\ wmRead = hist.skipped.wm
ReadRaisedAfterSkip(s) ==
    /\ cur = s
    /\ hist.skipped.series = s /\ clock > hist.skipped.at
    /\ cyc.raised \cap {"wm", "prev"} # {}
C30_RetryNextSweep ==
    /\ [][NoRetryInSweep]_vars
    /\ \A s \in Series :
          RetryPending(s) ~> (ProcessedAfterSkip(s) \/ ReadRaisedAfterSkip(s))

\* C30 witness: a series with a stored snapshot and watermark is skipped in
\* one sweep and processed in the next, its diff reading that snapshot and
\* that watermark.
C30_Witness ==
    /\ \E s \in Series : ProcessedAfterSkip(s) /\ clock = hist.skipped.at + 2
    /\ CardIds(prevMap) # {}
    /\ wmRead # None

\* C31 (the client never throws): fetch_api_data ends by returning, None
\* for every failure kind; fetch_hit_feed_data_api ends by returning, the
\* empty list when the fetch failed or the body has no items (it is no
\* object with the key "items", or the value under the key is null or an
\* empty list).
Failed(r) == r.kind # "ok"
HasItems(b) ==
    /\ b.shape = "object" /\ b.has
    /\ b.items # "null"
    /\ ~(b.items = "list" /\ b.count = 0)
C31_ClientNeverThrows ==
    client.pc = "ended" =>
        /\ client.result.outcome = "returns"
        /\ (client.fn = "fetch_api_data" /\ Failed(client.response))
              => client.result.value = NullJson
        /\ (client.fn = "fetch_hit_feed_data_api"
            /\ (Failed(client.response) \/ ~HasItems(client.response.body)))
              => client.result.value = EmptyList

\* C32 (every disappearance classified exactly once): at the end of a cycle
\* that replaced the snapshot, every card of previous - current has exactly
\* one new row, a SoldCardEvent or a SuspectedSwap, and every other card
\* (unchanged or arrived) has no new row of either kind.
C32_ClassifiedExactlyOnce ==
    Consumed =>
        /\ \A c \in Disappeared :
             SoldRowsOf(NewSold, cur, c) + SwapRowsOf(NewSwaps, cur, c) = 1
        /\ \A c \in Cards \ Disappeared :
             SoldRowsOf(NewSold, cur, c) + SwapRowsOf(NewSwaps, cur, c) = 0

\* C33 (verified events respect the stored watermark): at the end of a
\* cycle, every SoldCardEvent it stored with is_hit_feed_verified = true has
\* the createdAt of a hit-feed item with its hit id as sold_at, later than
\* the watermark stored for the series when the cycle began if there was
\* one; every unverified one has the processing time as sold_at and no hit id.
C33_VerifiedAfterStoredWatermark ==
    CycleEnd =>
        \A e \in BagToSet(NewSold) :
            IF e.verified
            THEN /\ \E i \in DOMAIN hitFeed :
                       /\ hitFeed[i].id = e.hitId
                       /\ hitFeed[i].cardId = e.card
                       /\ hitFeed[i].createdAt = e.soldAt
                 /\ cyc.wm # None => e.soldAt > cyc.wm
            ELSE e.soldAt = clock /\ e.hitId = None

\* C34 (a failed swap log loses no confirmed sale): when the snapshot is
\* about to be replaced in a cycle in which log_suspected_swap raised, the
\* batch of confirmed sales has been committed: every confirmed card has its
\* SoldCardEvent and total_sold has grown by the number confirmed.
C34_SwapFailureKeepsSales ==
    (pc = "replace" /\ "swap" \in cyc.raised) =>
        /\ "insert" \in cyc.committed
        /\ \A e \in confirmed : SoldRowsOf(sold, cur, e.card) >= 1
        /\ totalSold[cur] = cyc.total + newly

\* C35 (hit feed use per cycle): hit_feed_api_items is assigned a fetched
\* feed only by the step that reads the previous snapshot, and only when a
\* disappeared card is of a tier to verify; and at the end of a cycle that
\* replaced the snapshot after such a fetch gave the empty list, every
\* disappeared card of a tier to verify has one new SuspectedSwap and no new
\* SoldCardEvent, every other disappeared card one new unverified
\* SoldCardEvent.
FetchedOnlyWhenNeeded ==
    (hitFeed' # hitFeed /\ hitFeed' # <<>>) =>
        /\ pc = "prev" /\ pc' = "loop" /\ hitFeed = <<>>
        /\ \E c \in PotentialSold(cardSnap[cur], payload.cards) :
              cardSnap[cur][c] \in TIERS_TO_VERIFY_ON_HIT_FEED
EmptyFeedOutcome ==
    (/\ Consumed /\ hitFeed = <<>>
     /\ \E c \in Disappeared : cyc.snap[c] \in TIERS_TO_VERIFY_ON_HIT_FEED) =>
        \A c \in Disappeared :
            IF cyc.snap[c] \in TIERS_TO_VERIFY_ON_HIT_FEED
            THEN /\ SwapRowsOf(NewSwaps, cur, c) = 1
                 /\ SoldRowsOf(NewSold, cur, c) = 0
            ELSE /\ SoldRows(NewSold, cur, c, FALSE) = 1
                 /\ SoldRows(NewSold, cur, c, TRUE) = 0
C35_HitFeedUse == [][FetchedOnlyWhenNeeded]_vars /\ []EmptyFeedOutcome

\* C36 (sweep-level skip): a sweep whose listing failed or resolved no
\* target changes no table, processes no series and leaves the loop at the
\* start of a new sweep; a sweep that resolved some targets changes no table
\* by resolving and then processes exactly the resolved targets, one after
\* the other in the order of the configured list, whatever targets were not
\* resolved.
ResolvedInOrder == SelectSeq(TargetSeq, LAMBDA s : s \in hist.resolved)
SweepStarts == pc = "sweep" /\ clock' # clock
SkippedSweep ==
    (SweepStarts /\ hist'.resolved = {}) =>
        /\ pc' = "sweep" /\ queue' = <<>>
        /\ UNCHANGED tables
PartialSweep ==
    (SweepStarts /\ hist'.resolved # {}) =>
        /\ pc' = "fetch"
        /\ queue' = SelectSeq(TargetSeq, LAMBDA s : s \in hist'.resolved)
        /\ UNCHANGED tables
OneAfterTheOther ==
    (pc # "sweep" /\ queue' # queue) =>
        /\ queue' = Tail(queue)
        /\ pc \in {"fetch", "wmupd"}
        /\ pc' = IF queue' = <<>> THEN "sweep" ELSE "fetch"
InTurn ==
    pc # "sweep" =>
        /\ queue # <<>>
        /\ \E k \in 0..Len(ResolvedInOrder) :
              queue = SubSeq(ResolvedInOrder, k + 1, Len(ResolvedInOrder))
        /\ payload # NoPayload => cur = Head(queue)
C36_SweepLevelSkip ==
    /\ [][SkippedSweep /\ PartialSweep /\ OneAfterTheOther]_vars
    /\ []InTurn

\* C36 witness: the listing resolved the second target and not the first,
\* and the second target's series has been processed up to its snapshot
\* replace.
C36_Witness ==
    /\ hist.resolved = {2}
    /\ Consumed /\ cur = 2

====
